---- MODULE Spec2Model ----
(***************************************************************************)
(* Model of remeshGeometry (src/src/RandomGraphMesh.jsx): the isotropic    *)
(* remeshing loop that splits long edges and applies Laplacian smoothing;  *)
(* and, each with a specification of its own further down, of             *)
(* calculateNormal (src/src/utils/objExporter.js), handleOrder             *)
(* (src/src/App.jsx), the font loading of ModelViewer                      *)
(* (src/src/ModelViewer.jsx) and ManifoldProvider                          *)
(* (src/src/ManifoldProvider.jsx).  The variables of a component keep      *)
(* their idle values in the specifications of the other components.        *)
(*                                                                         *)
(* Numbers.  Coordinates and lengths are fixed-point integers in units of  *)
(* 1/100 (so 1.6 is 160 and targetEdgeLength = 1 is 100).  A JavaScript    *)
(* division rounds its result to the nearest representable number; here    *)
(* the representable numbers are the multiples of 1/100 and RoundDiv does  *)
(* the rounding.  Sums of the modelled values are exact.  The comparison   *)
(* length > maxLength is made on the squares, which is the same comparison *)
(* for non-negative lengths.                                               *)
(*                                                                         *)
(* Vertex and triangle indices are 0-based as in the source; TLA+          *)
(* sequences are 1-based, so buffer element k of the source is element     *)
(* k + 1 of the sequence that models the buffer.                           *)
(***************************************************************************)
EXTENDS Integers, Sequences, FiniteSets, TLC

VARIABLES
  pc,                 \* position in remeshGeometry: "loop", "edges", "split",
                      \* "rebuild", "adjacency", "smooth", "done"
  geometry,           \* the caller's geometry: [position, index]
  targetEdgeLength,   \* argument, in 1/100
  iterations,         \* argument
  iter,               \* counter of the driver loop
  i,                  \* counter of the inner loop that is running
  positions,          \* sequence of <<x, y, z>>, one per vertex
  indices,            \* flat index buffer, three entries per triangle
  vertexPositions,    \* this round's copy of the positions (before the split)
  oldIndices,         \* the index buffer this round started from
  edges,              \* the edge table
  newVertices,        \* midpoints created in this round
  splitMap,           \* edge key -> new vertex index
  newTriangles,       \* the index buffer being rebuilt
  pushed,             \* what the last round of the rebuild loop pushed
  neighbors,          \* vertex -> set of neighbor vertices
  smoothedPositions,  \* the array the smoothing loop writes
  order,              \* the order in which the smoothing loop visits vertices
  newGeometry,        \* the returned geometry, or undefined
  thrown,             \* the exception that ended the call, or "none"
  refs,               \* which array object positions, indices and
                      \* smoothedPositions each refer to
  \* calculateNormal
  stlPc,              \* "idle", "call" or "returned"
  faceVertices,       \* the arguments <<v1, v2, v3>>, records [x, y, z]
  facetNormal,        \* the returned record [x, y, z], in 1/100
  \* handleOrder
  orderPc,            \* "idle", "ready", the await the handler is suspended
                      \* at, "returned" or "redirected"
  offlineMode,        \* state of App
  email,              \* state of App: a string, as a sequence of characters
  currentGeometry,    \* state of App: TRUE when a geometry exists, not null
  confirmationNumber, \* state of App: "null" or a number
  isOrdering,         \* state of App: the ordering flag
  effects,            \* what handleOrder has done so far, in order
  \* ModelViewer
  textFont,           \* the prop textFont
  font,               \* the state font: "null" or the font loaded from a URL
  fontLoads,          \* the URLs whose load has not completed
  booleanSubtract,    \* the prop booleanSubtract
  objReady,           \* TRUE when obj and originalGeometry are set
  subtracted,         \* the last boolean subtraction: its font, its textFont
  \* ManifoldProvider
  manifold,           \* the state manifold: "null" or the classes of the module
  loading,            \* the state loading
  error,              \* the state error: "null" or what was caught
  runs,               \* the runs of the effect: the variable mounted of each
                      \* and how its initManifold stands
  views               \* what the provider has rendered

remeshVars == <<pc, geometry, targetEdgeLength, iterations, iter, i, positions,
          indices, vertexPositions, oldIndices, edges, newVertices, splitMap,
          newTriangles, pushed, neighbors, smoothedPositions, order,
          newGeometry, thrown, refs>>

stlVars == <<stlPc, faceVertices, facetNormal>>

orderVars == <<orderPc, offlineMode, email, currentGeometry,
               confirmationNumber, isOrdering, effects>>

\* the variables of the components other than remeshGeometry
viewerVars == <<textFont, font, fontLoads, booleanSubtract, objReady,
                subtracted>>

providerVars == <<manifold, loading, error, runs, views>>

otherVars == <<stlVars, orderVars, viewerVars, providerVars>>

vars == <<remeshVars, otherVars>>

(***************************************************************************)
(* Bounds of the model.                                                    *)
(***************************************************************************)
MaxIter == 2         \* iterations is drawn from 0 .. MaxIter
MaxTargetSteps == 3  \* targetEdgeLength is drawn from 0.5 * (1 .. MaxTargetSteps)
MaxCoord == 1        \* a coordinate of a face of calculateNormal is in 0 .. MaxCoord

undefined == -1      \* JavaScript's undefined (a Map miss, a read past the end)
NaN == -2            \* Number(s) for a string s that is not a number

(***************************************************************************)
(* Arithmetic.                                                             *)
(***************************************************************************)
\* a / b rounded to the nearest representable value (b > 0)
RoundDiv(a, b) == (2 * a + b) \div (2 * b)

\* the square of distance(p0, p1); Math.sqrt is monotone, so comparing
\* squares compares the distances
distanceSq(p0, p1) ==
  LET dx == p1[1] - p0[1]
      dy == p1[2] - p0[2]
      dz == p1[3] - p0[3]
  IN dx * dx + dy * dy + dz * dz

\* maxLength = targetEdgeLength * 1.33, times 100
maxLength100(target) == target * 133

\* minLength = targetEdgeLength * 0.8, times 100 (computed, never used)
minLength100(target) == target * 80

\* a faulty variant of the test below: < for >
exceedsMaxReversed(p0, p1, target) ==
  10000 * distanceSq(p0, p1) < maxLength100(target) * maxLength100(target)

\* a faulty variant of the test below: >= for >
exceedsMaxInclusive(p0, p1, target) ==
  10000 * distanceSq(p0, p1) >= maxLength100(target) * maxLength100(target)

\* length > maxLength
exceedsMax(p0, p1, target) ==
  10000 * distanceSq(p0, p1) > maxLength100(target) * maxLength100(target)

(***************************************************************************)
(* Edge keys: the template string `${a}-${b}`, as a sequence of            *)
(* characters.                                                             *)
(***************************************************************************)
DigitChars == <<"0", "1", "2", "3", "4", "5", "6", "7", "8", "9">>

UndefinedChars == <<"u", "n", "d", "e", "f", "i", "n", "e", "d">>

\* `${n}` for a non-negative integer n or undefined
RECURSIVE NumberToString(_)
NumberToString(n) ==
  IF n = undefined THEN UndefinedChars
  ELSE IF n < 10 THEN <<DigitChars[n + 1]>>
  ELSE Append(NumberToString(n \div 10), DigitChars[(n % 10) + 1])

\* Number(s) for a string of decimal digits; NaN for any other string
RECURSIVE StringToNumber(_)
StringToNumber(s) ==
  IF \E k \in 1..Len(s) : \A d \in 1..10 : DigitChars[d] # s[k] THEN NaN
  ELSE IF Len(s) = 0 THEN 0
  ELSE 10 * StringToNumber(SubSeq(s, 1, Len(s) - 1))
       + ((CHOOSE d \in 1..10 : DigitChars[d] = s[Len(s)]) - 1)

\* a faulty variant of makeEdgeKey: the pair is not put in order
makeEdgeKeyDirected(v0, v1) ==
  NumberToString(v0) \o <<"-">> \o NumberToString(v1)

\* a < b in JavaScript: false when either side is undefined
lessThan(a, b) == a # undefined /\ b # undefined /\ a < b

makeEdgeKey(v0, v1) ==
  IF lessThan(v0, v1)
  THEN NumberToString(v0) \o <<"-">> \o NumberToString(v1)
  ELSE NumberToString(v1) \o <<"-">> \o NumberToString(v0)

\* edgeKey.split('-').map(Number)
parseEdgeKey(edgeKey) ==
  LET dash == CHOOSE k \in 1..Len(edgeKey) : edgeKey[k] = "-"
  IN <<StringToNumber(SubSeq(edgeKey, 1, dash - 1)),
       StringToNumber(SubSeq(edgeKey, dash + 1, Len(edgeKey)))>>

(***************************************************************************)
(* The edge table: a Map in insertion order, modelled as a sequence of     *)
(* entries [key, triangles].                                               *)
(***************************************************************************)
hasKey(m, key) == \E j \in 1..Len(m) : m[j].key = key

\* a faulty variant of addEdge: an entry keeps its first triangle only
addEdgeFirstOnly(edgs, v0, v1, triIndex) ==
  LET key == makeEdgeKey(v0, v1)
  IN IF hasKey(edgs, key) THEN edgs
     ELSE Append(edgs, [key |-> key, triangles |-> <<triIndex>>])

\* a faulty variant of addEdge: no lookup, every call makes a new entry
addEdgeNoLookup(edgs, v0, v1, triIndex) ==
  Append(edgs, [key |-> makeEdgeKey(v0, v1), triangles |-> <<triIndex>>])

addEdge(edgs, v0, v1, triIndex) ==
  LET key == makeEdgeKey(v0, v1)
      withKey == IF hasKey(edgs, key) THEN edgs
                 ELSE Append(edgs, [key |-> key, triangles |-> <<>>])
      at == CHOOSE j \in 1..Len(withKey) : withKey[j].key = key
  IN [withKey EXCEPT ![at].triangles = Append(@, triIndex)]

\* numTri = indices.length / 3, for a length that is a multiple of 3
numTriOf(idx) == Len(idx) \div 3

\* the rounds of a loop `for (i = 0; i < indices.length / 3; i++)`: a last
\* incomplete triangle gets a round too
numTriRounds(idx) == (Len(idx) + 2) \div 3

\* indices[t * 3 + k]: undefined past the end of the buffer
triVertex(idx, t, k) ==
  IF t * 3 + k + 1 <= Len(idx) THEN idx[t * 3 + k + 1] ELSE undefined

\* vertexPositions[v] is an element (not undefined)
hasVertex(vp, v) == v \in 0..(Len(vp) - 1)

(***************************************************************************)
(* Split long edges: midpoints and the split map, a Map modelled as a      *)
(* function from the keys that were set to their values.                   *)
(***************************************************************************)
\* a faulty variant of midpointOf: the first end of the edge
midpointFirstEnd(p0, p1) == p0

midpointOf(p0, p1) ==
  <<RoundDiv(p0[1] + p1[1], 2), RoundDiv(p0[2] + p1[2], 2),
    RoundDiv(p0[3] + p1[3], 2)>>

emptyMap == [k \in {} |-> undefined]

mapSet(m, key, value) == (key :> value) @@ m
mapGet(m, key) == IF key \in DOMAIN m THEN m[key] ELSE undefined

(***************************************************************************)
(* Rebuild the triangles.                                                  *)
(***************************************************************************)
\* faulty variants of subdivideTriangle
\* the one-edge tests come before the two-edge tests
subdivideOneEdgeFirst(v0, v1, v2, split01, split12, split20) ==
  IF split01 # undefined /\ split12 # undefined /\ split20 # undefined
  THEN <<v0, split01, split20, v1, split12, split01,
         v2, split20, split12, split01, split12, split20>>
  ELSE IF split01 # undefined THEN <<v0, split01, v2, split01, v1, v2>>
  ELSE IF split12 # undefined THEN <<v1, split12, v0, split12, v2, v0>>
  ELSE IF split20 # undefined THEN <<v2, split20, v1, split20, v0, v1>>
  ELSE <<v0, v1, v2>>

\* the e12 and e20 one-edge cases copy the e01 case without rotating it
subdivideUnrotated(v0, v1, v2, split01, split12, split20) ==
  IF split01 # undefined /\ split12 # undefined /\ split20 # undefined
  THEN <<v0, split01, split20, v1, split12, split01,
         v2, split20, split12, split01, split12, split20>>
  ELSE IF split01 # undefined /\ split12 # undefined
  THEN <<v0, split01, v2, split01, v1, split12, split01, split12, v2>>
  ELSE IF split12 # undefined /\ split20 # undefined
  THEN <<v1, split12, v0, split12, v2, split20, split12, split20, v0>>
  ELSE IF split20 # undefined /\ split01 # undefined
  THEN <<v2, split20, v1, split20, v0, split01, split20, split01, v1>>
  ELSE IF split01 # undefined THEN <<v0, split01, v2, split01, v1, v2>>
  ELSE IF split12 # undefined THEN <<v0, split12, v2, split12, v1, v2>>
  ELSE IF split20 # undefined THEN <<v0, split20, v2, split20, v1, v2>>
  ELSE <<v0, v1, v2>>

\* the all-three case forgets the center triangle
subdivideNoCenter(v0, v1, v2, split01, split12, split20) ==
  IF split01 # undefined /\ split12 # undefined /\ split20 # undefined
  THEN <<v0, split01, split20, v1, split12, split01, v2, split20, split12>>
  ELSE IF split01 # undefined /\ split12 # undefined
  THEN <<v0, split01, v2, split01, v1, split12, split01, split12, v2>>
  ELSE IF split12 # undefined /\ split20 # undefined
  THEN <<v1, split12, v0, split12, v2, split20, split12, split20, v0>>
  ELSE IF split20 # undefined /\ split01 # undefined
  THEN <<v2, split20, v1, split20, v0, split01, split20, split01, v1>>
  ELSE IF split01 # undefined THEN <<v0, split01, v2, split01, v1, v2>>
  ELSE IF split12 # undefined THEN <<v1, split12, v0, split12, v2, v0>>
  ELSE IF split20 # undefined THEN <<v2, split20, v1, split20, v0, v1>>
  ELSE <<v0, v1, v2>>

\* the second triangle of the two-edge cases is pushed with two vertices
\* exchanged
subdivideFlipped(v0, v1, v2, split01, split12, split20) ==
  IF split01 # undefined /\ split12 # undefined /\ split20 # undefined
  THEN <<v0, split01, split20, v1, split12, split01,
         v2, split20, split12, split01, split12, split20>>
  ELSE IF split01 # undefined /\ split12 # undefined
  THEN <<v0, split01, v2, split01, split12, v1, split01, split12, v2>>
  ELSE IF split12 # undefined /\ split20 # undefined
  THEN <<v1, split12, v0, split12, split20, v2, split12, split20, v0>>
  ELSE IF split20 # undefined /\ split01 # undefined
  THEN <<v2, split20, v1, split20, split01, v0, split20, split01, v1>>
  ELSE IF split01 # undefined THEN <<v0, split01, v2, split01, v1, v2>>
  ELSE IF split12 # undefined THEN <<v1, split12, v0, split12, v2, v0>>
  ELSE IF split20 # undefined THEN <<v2, split20, v1, split20, v0, v1>>
  ELSE <<v0, v1, v2>>

\* a triangle none of whose edges is split is not pushed
subdivideDropUnsplit(v0, v1, v2, split01, split12, split20) ==
  IF split01 # undefined /\ split12 # undefined /\ split20 # undefined
  THEN <<v0, split01, split20, v1, split12, split01,
         v2, split20, split12, split01, split12, split20>>
  ELSE IF split01 # undefined /\ split12 # undefined
  THEN <<v0, split01, v2, split01, v1, split12, split01, split12, v2>>
  ELSE IF split12 # undefined /\ split20 # undefined
  THEN <<v1, split12, v0, split12, v2, split20, split12, split20, v0>>
  ELSE IF split20 # undefined /\ split01 # undefined
  THEN <<v2, split20, v1, split20, v0, split01, split20, split01, v1>>
  ELSE IF split01 # undefined THEN <<v0, split01, v2, split01, v1, v2>>
  ELSE IF split12 # undefined THEN <<v1, split12, v0, split12, v2, v0>>
  ELSE IF split20 # undefined THEN <<v2, split20, v1, split20, v0, v1>>
  ELSE <<>>

subdivideTriangle(v0, v1, v2, split01, split12, split20) ==
  IF split01 # undefined /\ split12 # undefined /\ split20 # undefined
  THEN <<v0, split01, split20,
         v1, split12, split01,
         v2, split20, split12,
         split01, split12, split20>>
  ELSE IF split01 # undefined /\ split12 # undefined
  THEN <<v0, split01, v2,
         split01, v1, split12,
         split01, split12, v2>>
  ELSE IF split12 # undefined /\ split20 # undefined
  THEN <<v1, split12, v0,
         split12, v2, split20,
         split12, split20, v0>>
  ELSE IF split20 # undefined /\ split01 # undefined
  THEN <<v2, split20, v1,
         split20, v0, split01,
         split20, split01, v1>>
  ELSE IF split01 # undefined
  THEN <<v0, split01, v2,
         split01, v1, v2>>
  ELSE IF split12 # undefined
  THEN <<v1, split12, v0,
         split12, v2, v0>>
  ELSE IF split20 # undefined
  THEN <<v2, split20, v1,
         split20, v0, v1>>
  ELSE <<v0, v1, v2>>


(***************************************************************************)
(* Laplacian smoothing.                                                    *)
(***************************************************************************)
\* a faulty variant of addNeighbors: each vertex gets the next one only
addNeighborsOneWay(nb, v0, v1, v2) ==
  [v \in DOMAIN nb |->
     nb[v] \cup (IF v = v0 THEN {v1} ELSE {})
           \cup (IF v = v1 THEN {v2} ELSE {})
           \cup (IF v = v2 THEN {v0} ELSE {})]

\* neighbors after triangle (v0, v1, v2) was added
addNeighbors(nb, v0, v1, v2) ==
  [v \in DOMAIN nb |->
     nb[v] \cup (IF v = v0 THEN {v1, v2} ELSE {})
           \cup (IF v = v1 THEN {v0, v2} ELSE {})
           \cup (IF v = v2 THEN {v0, v1} ELSE {})]

\* the sum of coordinate c of pos over the vertex set S
RECURSIVE sumCoord(_, _, _)
sumCoord(S, pos, c) ==
  IF S = {} THEN 0
  ELSE LET ni == CHOOSE x \in S : TRUE
       IN pos[ni + 1][c] + sumCoord(S \ {ni}, pos, c)

\* a faulty variant of smoothCoord: the vertex counts among its neighbors
smoothCoordSelfCounted(pos, nbi, v, c) ==
  LET avg == RoundDiv(sumCoord(nbi, pos, c), Cardinality(nbi) + 1)
  IN RoundDiv(pos[v + 1][c] + avg, 2)

\* pos * (1 - smoothFactor) + avg * smoothFactor, with smoothFactor = 0.5
smoothCoord(pos, nbi, v, c) ==
  LET avg == RoundDiv(sumCoord(nbi, pos, c), Cardinality(nbi))
  IN RoundDiv(pos[v + 1][c] + avg, 2)

\* a faulty variant of smoothVertex: no test of the neighbor count, so a
\* vertex without neighbors gets 0 / 0
smoothVertexNoSkip(smoothed, pos, nb, v) ==
  IF nb[v] = {} THEN [smoothed EXCEPT ![v + 1] = <<NaN, NaN, NaN>>]
  ELSE [smoothed EXCEPT ![v + 1] = <<smoothCoord(pos, nb[v], v, 1),
                                     smoothCoord(pos, nb[v], v, 2),
                                     smoothCoord(pos, nb[v], v, 3)>>]

\* a faulty variant of smoothVertex: reads the array it writes
smoothVertexInPlace(smoothed, pos, nb, v) ==
  IF nb[v] = {} THEN smoothed
  ELSE [smoothed EXCEPT ![v + 1] = <<smoothCoord(smoothed, nb[v], v, 1),
                                     smoothCoord(smoothed, nb[v], v, 2),
                                     smoothCoord(smoothed, nb[v], v, 3)>>]

\* one round of the smoothing loop: vertex v, reading pos, writing smoothed
smoothVertex(smoothed, pos, nb, v) ==
  IF nb[v] = {} THEN smoothed
  ELSE [smoothed EXCEPT ![v + 1] = <<smoothCoord(pos, nb[v], v, 1),
                                     smoothCoord(pos, nb[v], v, 2),
                                     smoothCoord(pos, nb[v], v, 3)>>]

\* the vertex visited in round k of the smoothing loop over n vertices.
\* The source's loop is "forward"; the other orders are permutations used
\* to compare the result of the loop across visiting orders.
Orders == {"forward", "reverse", "rotate"}

visitVertex(ord, n, k) ==
  IF ord = "forward" THEN k
  ELSE IF ord = "reverse" THEN n - 1 - k
  ELSE (k + 1) % n

(***************************************************************************)
(* Input meshes (coordinates in 1/100).                                    *)
(***************************************************************************)
Meshes == <<
  \* right triangle (0,0,0), (1,0,0), (0,1.6,0)
  [position |-> <<<<0, 0, 0>>, <<100, 0, 0>>, <<0, 160, 0>>>>,
   index |-> <<0, 1, 2>>],
  \* equilateral triangle of edge length 2 (sqrt(3) rounded)
  [position |-> <<<<0, 0, 0>>, <<200, 0, 0>>, <<100, 173, 0>>>>,
   index |-> <<0, 1, 2>>],
  \* triangle with one edge of length 1.33
  [position |-> <<<<0, 0, 0>>, <<133, 0, 0>>, <<66, 50, 0>>>>,
   index |-> <<0, 1, 2>>],
  \* square of two triangles sharing the diagonal
  [position |-> <<<<0, 0, 0>>, <<100, 0, 0>>, <<100, 100, 0>>, <<0, 100, 0>>>>,
   index |-> <<0, 1, 2, 0, 2, 3>>],
  \* closed tetrahedron
  [position |-> <<<<0, 0, 0>>, <<150, 0, 0>>, <<0, 150, 0>>, <<0, 0, 150>>>>,
   index |-> <<0, 2, 1, 0, 1, 3, 0, 3, 2, 1, 2, 3>>],
  \* three triangles around one edge (non-manifold)
  [position |-> <<<<0, 0, 0>>, <<160, 0, 0>>, <<80, 60, 0>>, <<80, 0, 60>>,
                  <<80, -60, 0>>>>,
   index |-> <<0, 1, 2, 0, 1, 3, 0, 1, 4>>],
  \* a triangle and a vertex no triangle references
  [position |-> <<<<0, 0, 0>>, <<120, 0, 0>>, <<0, 90, 0>>, <<40, 40, 40>>>>,
   index |-> <<0, 1, 2>>],
  \* two triangles that repeat a vertex index
  [position |-> <<<<0, 0, 0>>, <<180, 0, 0>>, <<0, 180, 0>>>>,
   index |-> <<0, 0, 1, 0, 0, 2>>],
  \* the same triangle twice, with opposite windings
  [position |-> <<<<0, 0, 0>>, <<100, 0, 0>>, <<0, 160, 0>>>>,
   index |-> <<0, 1, 2, 0, 2, 1>>],
  \* two vertices at the same place
  [position |-> <<<<0, 0, 0>>, <<0, 0, 0>>, <<170, 20, 0>>>>,
   index |-> <<0, 1, 2>>],
  \* a strip of three triangles, one long edge on its border
  [position |-> <<<<0, 0, 0>>, <<100, 0, 0>>, <<50, 87, 0>>, <<150, 87, 0>>,
                  <<200, -80, 0>>>>,
   index |-> <<0, 1, 2, 1, 3, 2, 1, 4, 3>>],
  \* a narrow triangle: two long edges from v0, a short edge opposite
  [position |-> <<<<0, 0, 0>>, <<200, -30, 0>>, <<200, 30, 0>>>>,
   index |-> <<0, 1, 2>>],
  \* closed octahedron
  [position |-> <<<<100, 0, 0>>, <<-100, 0, 0>>, <<0, 100, 0>>,
                  <<0, -100, 0>>, <<0, 0, 100>>, <<0, 0, -100>>>>,
   index |-> <<0, 2, 4, 2, 1, 4, 1, 3, 4, 3, 0, 4,
               2, 0, 5, 1, 2, 5, 3, 1, 5, 0, 3, 5>>],
  \* no triangle, no vertex
  [position |-> <<>>, index |-> <<>>],
  \* an index buffer of four entries: its length is not a multiple of 3
  [position |-> <<<<0, 0, 0>>, <<100, 0, 0>>, <<0, 160, 0>>>>,
   index |-> <<0, 1, 2, 0>>],
  \* an index (3) that is not below the vertex count (3)
  [position |-> <<<<0, 0, 0>>, <<100, 0, 0>>, <<0, 160, 0>>>>,
   index |-> <<0, 1, 3>>],
  \* a triangle whose three vertices are at the same place
  [position |-> <<<<50, 50, 50>>, <<50, 50, 50>>, <<50, 50, 50>>>>,
   index |-> <<0, 1, 2>>],
  \* four triangles around a center that is the mean of the corners
  [position |-> <<<<100, 100, 0>>, <<50, 50, 0>>, <<150, 50, 0>>,
                  <<150, 150, 0>>, <<50, 150, 0>>>>,
   index |-> <<0, 1, 2, 0, 2, 3, 0, 3, 4, 0, 4, 1>>]
>>

(***************************************************************************)
(* The state machine: remeshGeometry, one action per loop round.           *)
(***************************************************************************)
\* The identity of an array object: the place that created it and the round
\* of the driver loop in which it did.
newArray(site, round) == [site |-> site, round |-> round]
callerPosition == newArray("geometry.attributes.position.array", 0)
callerIndex == newArray("geometry.index.array", 0)
noArray == newArray("none", 0)

\* a faulty variant of copyArray: hands out the array it was given
copyArrayShared(ref, site, round) == ref

\* Array.from(a), [...a] and the typed-array constructors make a new array
\* object with the elements of a
copyArray(ref, site, round) == newArray(site, round)

\* a faulty variant of loopContinues: one round more
loopContinuesInclusive(it, its) == it <= its

\* the test of the driver loop
loopContinues(it, its) == it < its

\* calculateNormal is not being called
StlIdle == stlPc = "idle" /\ faceVertices = <<>> /\ facetNormal = undefined

\* handleOrder is not being called
OrderIdle ==
  /\ orderPc = "idle"
  /\ offlineMode = FALSE
  /\ email = <<>>
  /\ currentGeometry = FALSE
  /\ confirmationNumber = "null"
  /\ isOrdering = FALSE
  /\ effects = <<>>

\* no component other than remeshGeometry is running
\* no boolean subtraction has been made
noSubtraction == [font |-> "null", textFont |-> "null"]

\* no ModelViewer is mounted
ViewerIdle ==
  /\ textFont = "null"
  /\ font = "null"
  /\ fontLoads = {}
  /\ booleanSubtract = FALSE
  /\ objReady = FALSE
  /\ subtracted = noSubtraction

\* the states of ManifoldProvider as useState makes them (lines 18-20),
\* its effect not run yet
ProviderIdle ==
  /\ manifold = "null"
  /\ loading = TRUE
  /\ error = "null"
  /\ runs = <<>>
  /\ views = {}

OthersIdle == StlIdle /\ OrderIdle /\ ViewerIdle /\ ProviderIdle

\* entry of remeshGeometry, after the buffers were copied
InitWith(orders) ==
  /\ OthersIdle
  /\ \E m \in 1..Len(Meshes) : geometry = Meshes[m]
  /\ targetEdgeLength \in {50 * k : k \in 1..MaxTargetSteps}
  /\ iterations \in (-1)..MaxIter
  /\ order \in orders
  /\ pc = "loop"
  /\ iter = 0
  /\ i = 0
  /\ positions = geometry.position
  /\ indices = geometry.index
  /\ vertexPositions = <<>>
  /\ oldIndices = <<>>
  /\ edges = <<>>
  /\ newVertices = <<>>
  /\ splitMap = emptyMap
  /\ newTriangles = <<>>
  /\ pushed = <<>>
  /\ neighbors = <<>>
  /\ smoothedPositions = <<>>
  /\ newGeometry = undefined
  /\ thrown = "none"
  /\ refs = [positions |-> copyArray(callerPosition, "Array.from:62", 0),
             indices |-> copyArray(callerIndex, "Array.from:63", 0),
             smoothedPositions |-> noArray,
             position |-> noArray,
             index |-> noArray]

Init == InitWith({"forward"})

InitAnyOrder == InitWith(Orders)

\* a round of the driver loop starts: vertexPositions, an empty edge table
BeginIteration ==
  /\ UNCHANGED otherVars
  /\ pc = "loop"
  /\ loopContinues(iter, iterations)
  /\ vertexPositions' = positions
  /\ oldIndices' = indices
  /\ edges' = <<>>
  /\ i' = 0
  /\ pc' = "edges"
  /\ UNCHANGED <<geometry, targetEdgeLength, iterations, iter, positions,
                 indices, newVertices, splitMap, newTriangles, pushed,
                 neighbors, smoothedPositions, order, newGeometry, thrown, refs>>

\* the edge loop registers the three edges of triangle i
AddEdges ==
  /\ UNCHANGED otherVars
  /\ pc = "edges"
  /\ i < numTriRounds(indices)
  /\ LET v0 == triVertex(indices, i, 0)
         v1 == triVertex(indices, i, 1)
         v2 == triVertex(indices, i, 2)
     IN \E e1 \in {addEdge(edges, v0, v1, i)} :
          \E e2 \in {addEdge(e1, v1, v2, i)} :
            edges' = addEdge(e2, v2, v0, i)
  /\ i' = i + 1
  /\ UNCHANGED <<pc, geometry, targetEdgeLength, iterations, iter, positions,
                 indices, vertexPositions, oldIndices, newVertices, splitMap,
                 newTriangles, pushed, neighbors, smoothedPositions, order,
                 newGeometry, thrown, refs>>

\* the edge table is complete: empty newVertices and splitMap
BeginSplit ==
  /\ UNCHANGED otherVars
  /\ pc = "edges"
  /\ i >= numTriRounds(indices)
  /\ newVertices' = <<>>
  /\ splitMap' = emptyMap
  /\ i' = 0
  /\ pc' = "split"
  /\ UNCHANGED <<geometry, targetEdgeLength, iterations, iter, positions,
                 indices, vertexPositions, oldIndices, edges, newTriangles,
                 pushed, neighbors, smoothedPositions, order, newGeometry, thrown, refs>>

\* edges.forEach visits entry i of the edge table; distance throws a
\* TypeError when an end of the edge is not a vertex
SplitEdge ==
  /\ UNCHANGED otherVars
  /\ pc = "split"
  /\ i < Len(edges)
  /\ LET edgeKey == edges[i + 1].key
         v == parseEdgeKey(edgeKey)
     IN IF hasVertex(vertexPositions, v[1]) /\ hasVertex(vertexPositions, v[2])
        THEN LET p0 == vertexPositions[v[1] + 1]
                 p1 == vertexPositions[v[2] + 1]
             IN /\ IF exceedsMax(p0, p1, targetEdgeLength)
                   THEN LET newVertexIndex ==
                              Len(vertexPositions) + Len(newVertices)
                        IN /\ newVertices' =
                                Append(newVertices, midpointOf(p0, p1))
                           /\ splitMap' =
                                mapSet(splitMap, edgeKey, newVertexIndex)
                   ELSE UNCHANGED <<newVertices, splitMap>>
                /\ i' = i + 1
                /\ UNCHANGED <<pc, thrown>>
        ELSE /\ thrown' = "TypeError"
             /\ pc' = "threw"
             /\ UNCHANGED <<newVertices, splitMap, i>>
  /\ UNCHANGED <<geometry, targetEdgeLength, iterations, iter, positions,
                 indices, vertexPositions, oldIndices, edges, newTriangles,
                 pushed, neighbors, smoothedPositions, order, newGeometry,
                 refs>>

\* an empty neighbor set for each of n vertices
emptyNeighbors(n) == [v \in 0..(n - 1) |-> {}]

\* every edge was visited and some edge was split: start the rebuild
BeginRebuild ==
  /\ UNCHANGED otherVars
  /\ pc = "split"
  /\ i >= Len(edges)
  /\ Len(newVertices) > 0
  /\ newTriangles' = <<>>
  /\ pushed' = <<>>
  /\ i' = 0
  /\ pc' = "rebuild"
  /\ UNCHANGED <<geometry, targetEdgeLength, iterations, iter, positions,
                 indices, vertexPositions, oldIndices, edges, newVertices,
                 splitMap, neighbors, smoothedPositions, order, newGeometry, thrown, refs>>

\* a faulty variant of SkipRebuild: a round without a split ends at once
SkipRebuildAndSmoothing ==
  /\ UNCHANGED otherVars
  /\ pc = "split"
  /\ i >= Len(edges)
  /\ Len(newVertices) = 0
  /\ iter' = iter + 1
  /\ i' = 0
  /\ pc' = "loop"
  /\ UNCHANGED <<geometry, targetEdgeLength, iterations, positions, indices,
                 vertexPositions, oldIndices, edges, newVertices, splitMap,
                 newTriangles, pushed, neighbors, smoothedPositions, order,
                 newGeometry, thrown, refs>>

\* every edge was visited and none was split: go on to the adjacency
SkipRebuild ==
  /\ UNCHANGED otherVars
  /\ pc = "split"
  /\ i >= Len(edges)
  /\ Len(newVertices) = 0
  /\ neighbors' = emptyNeighbors(Len(positions))
  /\ i' = 0
  /\ pc' = "adjacency"
  /\ UNCHANGED <<geometry, targetEdgeLength, iterations, iter, positions,
                 indices, vertexPositions, oldIndices, edges, newVertices,
                 splitMap, newTriangles, pushed, smoothedPositions, order,
                 newGeometry, thrown, refs>>

\* the rebuild loop subdivides triangle i
RebuildTriangle ==
  /\ UNCHANGED otherVars
  /\ pc = "rebuild"
  /\ i < numTriRounds(indices)
  /\ LET v0 == triVertex(indices, i, 0)
         v1 == triVertex(indices, i, 1)
         v2 == triVertex(indices, i, 2)
         split01 == mapGet(splitMap, makeEdgeKey(v0, v1))
         split12 == mapGet(splitMap, makeEdgeKey(v1, v2))
         split20 == mapGet(splitMap, makeEdgeKey(v2, v0))
     IN pushed' = subdivideTriangle(v0, v1, v2, split01, split12, split20)
  /\ newTriangles' = newTriangles \o pushed'
  /\ i' = i + 1
  /\ UNCHANGED <<pc, geometry, targetEdgeLength, iterations, iter, positions,
                 indices, vertexPositions, oldIndices, edges, newVertices,
                 splitMap, neighbors, smoothedPositions, order, newGeometry, thrown, refs>>

\* the rebuild is complete: positions and indices are replaced
EndRebuild ==
  /\ UNCHANGED otherVars
  /\ pc = "rebuild"
  /\ i >= numTriRounds(indices)
  /\ positions' = vertexPositions \o newVertices
  /\ indices' = newTriangles
  /\ refs' = [refs EXCEPT !.positions = newArray("flatMap:164", iter),
                          !.indices = newArray("newTriangles:116", iter)]
  /\ neighbors' = emptyNeighbors(Len(positions'))
  /\ i' = 0
  /\ pc' = "adjacency"
  /\ UNCHANGED <<geometry, targetEdgeLength, iterations, iter,
                 vertexPositions, oldIndices, edges, newVertices, splitMap,
                 newTriangles, pushed, smoothedPositions, order, newGeometry,
                 thrown>>

\* the adjacency loop adds the vertices of triangle i to each other's sets
AddNeighbors ==
  /\ UNCHANGED otherVars
  /\ pc = "adjacency"
  /\ i < numTriRounds(indices)
  /\ neighbors' = addNeighbors(neighbors, triVertex(indices, i, 0),
                               triVertex(indices, i, 1),
                               triVertex(indices, i, 2))
  /\ i' = i + 1
  /\ UNCHANGED <<pc, geometry, targetEdgeLength, iterations, iter, positions,
                 indices, vertexPositions, oldIndices, edges, newVertices,
                 splitMap, newTriangles, pushed, smoothedPositions, order,
                 newGeometry, thrown, refs>>

\* the adjacency is complete: smoothedPositions starts as a copy
BeginSmooth ==
  /\ UNCHANGED otherVars
  /\ pc = "adjacency"
  /\ i >= numTriRounds(indices)
  /\ smoothedPositions' = positions
  /\ refs' = [refs EXCEPT !.smoothedPositions =
                            copyArray(refs.positions, "spread:189", iter)]
  /\ i' = 0
  /\ pc' = "smooth"
  /\ UNCHANGED <<geometry, targetEdgeLength, iterations, iter, positions,
                 indices, vertexPositions, oldIndices, edges, newVertices,
                 splitMap, newTriangles, pushed, neighbors, order,
                 newGeometry, thrown>>

\* round i of the smoothing loop: a write into smoothedPositions is a write
\* into every array that is the same object
SmoothVertex ==
  /\ UNCHANGED otherVars
  /\ pc = "smooth"
  /\ i < Len(positions)
  /\ smoothedPositions' =
       smoothVertex(smoothedPositions, positions, neighbors,
                    visitVertex(order, Len(positions), i))
  /\ positions' = IF refs.smoothedPositions = refs.positions
                  THEN smoothedPositions' ELSE positions
  /\ geometry' = IF refs.smoothedPositions = callerPosition
                 THEN [geometry EXCEPT !.position = smoothedPositions']
                 ELSE geometry
  /\ i' = i + 1
  /\ UNCHANGED <<pc, targetEdgeLength, iterations, iter, indices,
                 vertexPositions, oldIndices, edges, newVertices, splitMap,
                 newTriangles, pushed, neighbors, order, newGeometry, thrown,
                 refs>>

\* the smoothing loop is over: positions is replaced, the round ends
EndSmooth ==
  /\ UNCHANGED otherVars
  /\ pc = "smooth"
  /\ i >= Len(positions)
  /\ positions' = smoothedPositions
  /\ refs' = [refs EXCEPT !.positions = refs.smoothedPositions]
  /\ iter' = iter + 1
  /\ i' = 0
  /\ pc' = "loop"
  /\ UNCHANGED <<geometry, targetEdgeLength, iterations, indices,
                 vertexPositions, oldIndices, edges, newVertices, splitMap,
                 newTriangles, pushed, neighbors, smoothedPositions, order,
                 newGeometry, thrown>>

\* the driver loop is over: build and return the new geometry
Finish ==
  /\ UNCHANGED otherVars
  /\ pc = "loop"
  /\ ~loopContinues(iter, iterations)
  /\ newGeometry' = [position |-> positions, index |-> indices]
  /\ refs' = [refs EXCEPT
               !.position = copyArray(refs.positions,
                                      "Float32BufferAttribute:217", iter),
               !.index = copyArray(refs.indices, "setIndex:218", iter)]
  /\ pc' = "done"
  /\ UNCHANGED <<geometry, targetEdgeLength, iterations, iter, i, positions,
                 indices, vertexPositions, oldIndices, edges, newVertices,
                 splitMap, newTriangles, pushed, neighbors, smoothedPositions,
                 order, thrown>>

Next ==
  \/ BeginIteration
  \/ AddEdges
  \/ BeginSplit
  \/ SplitEdge
  \/ BeginRebuild
  \/ SkipRebuild
  \/ RebuildTriangle
  \/ EndRebuild
  \/ AddNeighbors
  \/ BeginSmooth
  \/ SmoothVertex
  \/ EndSmooth
  \/ Finish

Spec == Init /\ [][Next]_vars

\* the call runs on: the function is synchronous, with no suspension point
SpecFair == Init /\ [][Next]_vars /\ WF_vars(Next)

\* the same program with the smoothing loop's visiting order left open
SpecAnyOrder == InitAnyOrder /\ [][Next]_vars

(***************************************************************************)
(* Vocabulary of the properties.                                           *)
(***************************************************************************)
\* the split step of the current round has just finished: vertexPositions
\* and oldIndices are the mesh that entered it, positions and indices the
\* mesh that left it
SplitPassDone == pc = "adjacency" /\ i = 0

\* the rebuild loop has just pushed the sub-triangles of triangle i - 1
JustRebuilt == pc = "rebuild" /\ i >= 1

Tris(idx) == 0..(numTriOf(idx) - 1)

\* the edge of triangle t that starts at corner a, as a set of vertices
EdgeOf(idx, t, a) == {triVertex(idx, t, a), triVertex(idx, t, (a + 1) % 3)}

EdgeSet(idx) == {EdgeOf(idx, t, a) : t \in Tris(idx), a \in 0..2}

IncidentTris(idx, e) == {t \in Tris(idx) : \E a \in 0..2 : EdgeOf(idx, t, a) = e}

EdgeLengthSq(e, pos) ==
  LET a == CHOOSE x \in e : TRUE
      b == CHOOSE y \in e : e = {a, y}
  IN distanceSq(pos[a + 1], pos[b + 1])

\* the edge is longer than 1.33 * target
IsLong(e, pos, target) == 10000 * EdgeLengthSq(e, pos) > 17689 * target * target

LongEdges(idx, pos, target) == {e \in EdgeSet(idx) : IsLong(e, pos, target)}

\* the rebuilt triangle, its split points and its sub-triangles
ParentV(k) == triVertex(indices, i - 1, k)
ParentSplit(k) ==
  mapGet(splitMap, makeEdgeKey(ParentV(k), ParentV((k + 1) % 3)))
ParentSplitCount == Cardinality({k \in 0..2 : ParentSplit(k) # undefined})
NumPushed == Len(pushed) \div 3
PushedTri(j) == <<pushed[3 * j + 1], pushed[3 * j + 2], pushed[3 * j + 3]>>
TriHasEdge(tri, e) == \E a \in 1..3 : {tri[a], tri[(a % 3) + 1]} = e

(***************************************************************************)
(* C1.  In one split pass, if exactly K distinct edges (unordered vertex   *)
(* pairs that occur in some triangle, each counted once) are longer than   *)
(* maxLength, the vertex count after the pass is the count before it       *)
(* plus K.                                                                 *)
(***************************************************************************)
C1_VertexGrowth ==
  SplitPassDone =>
    Len(positions) = Len(vertexPositions)
      + Cardinality(LongEdges(oldIndices, vertexPositions, targetEdgeLength))

\* a pass in which a long edge is shared by two or more triangles
C1_Witness ==
  /\ SplitPassDone
  /\ \E e \in LongEdges(oldIndices, vertexPositions, targetEdgeLength) :
       Cardinality(IncidentTris(oldIndices, e)) >= 2
  /\ Len(positions) > Len(vertexPositions)

(***************************************************************************)
(* C2.  The split pass keeps the mesh watertight: if every edge of the     *)
(* input of a pass has exactly 2 incident triangles, every edge of its     *)
(* output has exactly 2 incident triangles.                                *)
(***************************************************************************)
Closed(idx) ==
  \A e \in EdgeSet(idx) : Cardinality(IncidentTris(idx, e)) = 2

\* every triangle has three different vertices and no two triangles have
\* the same three vertices
VertexSetOf(idx, t) == {triVertex(idx, t, k) : k \in 0..2}
Proper(idx) ==
  /\ \A t \in Tris(idx) : Cardinality(VertexSetOf(idx, t)) = 3
  /\ \A t, u \in Tris(idx) :
       t # u => VertexSetOf(idx, t) # VertexSetOf(idx, u)

\* the claim as stated: fails when two triangles have the same vertices
C2_Original ==
  (SplitPassDone /\ Closed(oldIndices)) => Closed(indices)

\* C2 as amended: a closed mesh whose triangles have three different
\* vertices each and pairwise different vertex sets stays such a mesh
C2_Watertight ==
  (SplitPassDone /\ Closed(oldIndices) /\ Proper(oldIndices))
    => (Closed(indices) /\ Proper(indices))

\* a closed proper mesh is split in a round after the first
C2_Witness ==
  /\ SplitPassDone
  /\ iter >= 1
  /\ numTriOf(oldIndices) > 0
  /\ Closed(oldIndices) /\ Proper(oldIndices)
  /\ Len(newVertices) > 0

(***************************************************************************)
(* C3.  Every triangle is replaced according to the number k of its edges  *)
(* that are in the split map: k = 0 leaves it unchanged, k = 1 gives 2     *)
(* sub-triangles, k = 2 gives 3 and k = 3 gives 4; with e01 split at s01   *)
(* the sub-triangles are (v0,s01,v2) and (s01,v1,v2), and the e12 and e20  *)
(* cases are the rotations of that.                                        *)
(***************************************************************************)
OneEdgePattern(a, b, c, s) == <<a, s, c, s, b, c>>

C3_CaseTable ==
  /\ JustRebuilt =>
       /\ NumPushed = ParentSplitCount + 1
       /\ ParentSplitCount = 0 => pushed = <<ParentV(0), ParentV(1), ParentV(2)>>
       /\ ParentSplitCount = 1 =>
            \E r \in 0..2 :
              /\ ParentSplit(r) # undefined
              /\ pushed = OneEdgePattern(ParentV(r), ParentV((r + 1) % 3),
                                         ParentV((r + 2) % 3), ParentSplit(r))
  /\ (SplitPassDone /\ Len(newVertices) > 0) =>
       numTriOf(indices) =
         Cardinality({tj \in Tris(oldIndices) \X (0..3) :
            tj[2] <= Cardinality({a \in 0..2 :
               mapGet(splitMap, makeEdgeKey(triVertex(oldIndices, tj[1], a),
                  triVertex(oldIndices, tj[1], (a + 1) % 3))) # undefined})})

\* a triangle of which only the edge e12 is split has been rebuilt
C3_Witness ==
  /\ JustRebuilt
  /\ ParentSplitCount = 1
  /\ ParentSplit(1) # undefined
  /\ NumPushed = 2

(***************************************************************************)
(* C4.  The right triangle (0,0,0), (1,0,0), (0,1.6,0) with                *)
(* targetEdgeLength = 1 has exactly one edge, the one of length 1.6,       *)
(* longer than maxLength, and one split pass gives 2 triangles and 4       *)
(* vertices.                                                               *)
(***************************************************************************)
RightTriangle == [position |-> <<<<0, 0, 0>>, <<100, 0, 0>>, <<0, 160, 0>>>>,
                  index |-> <<0, 1, 2>>]

RightTriangleSplit ==
  /\ SplitPassDone
  /\ iter = 0
  /\ geometry = RightTriangle
  /\ targetEdgeLength = 100

\* the claim as stated: fails, the hypotenuse is longer than 1.6
C4_Original ==
  RightTriangleSplit =>
    /\ LongEdges(oldIndices, vertexPositions, targetEdgeLength) = {{0, 2}}
    /\ numTriOf(indices) = 2
    /\ Len(positions) = 4

\* C4 as amended: two edges are longer than maxLength, the edge of length
\* 1.6 and the hypotenuse, and the pass gives 3 triangles and 5 vertices
C4_RightTriangle ==
  RightTriangleSplit =>
    /\ LongEdges(oldIndices, vertexPositions, targetEdgeLength)
         = {{0, 2}, {1, 2}}
    /\ EdgeLengthSq({0, 2}, vertexPositions) = 160 * 160
    /\ numTriOf(indices) = 3
    /\ Len(positions) = 5

C4_Witness == RightTriangleSplit /\ Len(newVertices) = 2

(***************************************************************************)
(* C5.  When exactly two edges of a triangle are split, it is replaced by  *)
(* 3 sub-triangles, and the unsplit edge is kept whole as a boundary       *)
(* shared by two of the three sub-triangles.                               *)
(***************************************************************************)
\* the corner the unsplit edge starts at, when exactly two edges are split
UnsplitCorner == CHOOSE k \in 0..2 : ParentSplit(k) = undefined
UnsplitEdge == {ParentV(UnsplitCorner), ParentV((UnsplitCorner + 1) % 3)}

PushedWithUnsplitEdge ==
  {j \in 0..(NumPushed - 1) : TriHasEdge(PushedTri(j), UnsplitEdge)}

PushedAtUnsplitEdge ==
  {j \in 0..(NumPushed - 1) :
     \E a \in 1..3 : PushedTri(j)[a] \in UnsplitEdge}

\* the claim as stated: fails, one sub-triangle has the unsplit edge
C5_Original ==
  (JustRebuilt /\ ParentSplitCount = 2) =>
    /\ NumPushed = 3
    /\ Cardinality(PushedWithUnsplitEdge) = 2

\* C5 as amended: 3 sub-triangles; the unsplit edge is an edge of exactly
\* one of them, and exactly two of them (the two that make up the
\* quadrilateral next to the unsplit edge) contain an end of it
C5_TwoEdges ==
  (JustRebuilt /\ ParentSplitCount = 2) =>
    /\ NumPushed = 3
    /\ Cardinality(PushedWithUnsplitEdge) = 1
    /\ Cardinality(PushedAtUnsplitEdge) = 2

\* a triangle with e12 and e20 split and e01 unsplit has been rebuilt
C5_Witness ==
  /\ JustRebuilt
  /\ ParentSplitCount = 2
  /\ ParentSplit(0) = undefined
  /\ NumPushed = 3

(***************************************************************************)
(* C6.  When all three edges are split the triangle is replaced by 4       *)
(* sub-triangles: three corner triangles, each an original vertex with     *)
(* the split points of its two edges, and the center triangle of the       *)
(* three split points.  A lone equilateral triangle of edge length 2 with  *)
(* targetEdgeLength = 1 becomes 4 triangles and 6 vertices.                *)
(***************************************************************************)
Equilateral == [position |-> <<<<0, 0, 0>>, <<200, 0, 0>>, <<100, 173, 0>>>>,
                index |-> <<0, 1, 2>>]

EquilateralSplit ==
  /\ SplitPassDone
  /\ iter = 0
  /\ geometry = Equilateral
  /\ targetEdgeLength = 100

C6_AllEdges ==
  /\ (JustRebuilt /\ ParentSplitCount = 3) =>
       /\ NumPushed = 4
       /\ {{PushedTri(j)[a] : a \in 1..3} : j \in 0..3} =
            {{ParentV(0), ParentSplit(0), ParentSplit(2)},
             {ParentV(1), ParentSplit(1), ParentSplit(0)},
             {ParentV(2), ParentSplit(2), ParentSplit(1)},
             {ParentSplit(0), ParentSplit(1), ParentSplit(2)}}
       /\ Cardinality({ParentV(0), ParentV(1), ParentV(2), ParentSplit(0),
                       ParentSplit(1), ParentSplit(2)}) = 6
  /\ EquilateralSplit => (numTriOf(indices) = 4 /\ Len(positions) = 6)

C6_Witness ==
  /\ EquilateralSplit
  /\ Cardinality(LongEdges(oldIndices, vertexPositions, targetEdgeLength)) = 3
  /\ Len(pushed) = 12

(***************************************************************************)
(* C7.  The split pass preserves the winding: every sub-triangle lists     *)
(* its vertices in the same rotational sense as its parent (v0,v1,v2).     *)
(***************************************************************************)
\* twice the barycentric position of a vertex of the subdivided parent, in
\* the frame where v0 = (0,0), v1 = (1,0), v2 = (0,1)
LocalOf(v) ==
  IF v = ParentV(0) THEN <<0, 0>>
  ELSE IF v = ParentV(1) THEN <<2, 0>>
  ELSE IF v = ParentV(2) THEN <<0, 2>>
  ELSE IF v = ParentSplit(0) THEN <<1, 0>>
  ELSE IF v = ParentSplit(1) THEN <<1, 1>>
  ELSE <<0, 1>>

\* the signed area (times 8) of a sub-triangle in that frame; the parent's
\* is positive
SignedArea(tri) ==
  LET a == LocalOf(tri[1])
      b == LocalOf(tri[2])
      c == LocalOf(tri[3])
  IN (b[1] - a[1]) * (c[2] - a[2]) - (b[2] - a[2]) * (c[1] - a[1])

ParentIsProper == Cardinality({ParentV(0), ParentV(1), ParentV(2)}) = 3

C7_Winding ==
  (JustRebuilt /\ ParentIsProper) =>
    \A j \in 0..(NumPushed - 1) :
      /\ \A a \in 1..3 :
           PushedTri(j)[a] \in {ParentV(0), ParentV(1), ParentV(2),
                                ParentSplit(0), ParentSplit(1), ParentSplit(2)}
                               \ {undefined}
      /\ SignedArea(PushedTri(j)) > 0

\* a triangle with e20 and e01 split has been rebuilt
C7_Witness ==
  /\ JustRebuilt
  /\ ParentIsProper
  /\ ParentSplit(1) = undefined
  /\ ParentSplit(0) # undefined
  /\ ParentSplit(2) # undefined

(***************************************************************************)
(* C8.  A split pass over a mesh in which every edge length is at most     *)
(* maxLength (exactly maxLength included) splits nothing: the triangle     *)
(* list and the vertex buffer leave the split step as they entered it.     *)
(***************************************************************************)
NoLongEdge(idx, pos, target) ==
  \A e \in EdgeSet(idx) : 10000 * EdgeLengthSq(e, pos) <= 17689 * target * target

C8_NoOp ==
  (SplitPassDone /\ NoLongEdge(oldIndices, vertexPositions, targetEdgeLength))
    => /\ indices = oldIndices
       /\ positions = vertexPositions
       /\ Len(newVertices) = 0

\* a pass over a mesh with an edge of length exactly maxLength
C8_Witness ==
  /\ SplitPassDone
  /\ NoLongEdge(oldIndices, vertexPositions, targetEdgeLength)
  /\ \E e \in EdgeSet(oldIndices) :
       10000 * EdgeLengthSq(e, vertexPositions)
         = 17689 * targetEdgeLength * targetEdgeLength

(***************************************************************************)
(* C9.  The triangle count never decreases from one step, and so from one  *)
(* iteration, to the next.                                                 *)
(***************************************************************************)
C9_Monotonic == [][numTriOf(indices') >= numTriOf(indices)]_vars

\* two rounds have run and the mesh has grown, one triangle having stayed
\* unsplit in the last rebuild
C9_Witness ==
  /\ pc = "done"
  /\ iter = 2
  /\ numTriOf(indices) > numTriOf(geometry.index)
  /\ \E t \in Tris(oldIndices) : \A a \in 0..2 :
       mapGet(splitMap, makeEdgeKey(triVertex(oldIndices, t, a),
              triVertex(oldIndices, t, (a + 1) % 3))) = undefined

(***************************************************************************)
(* C10.  The smoothing pass is a simultaneous update: every vertex with a  *)
(* neighbor gets oldPos * 0.5 + centroid(neighbors' old positions) * 0.5,  *)
(* all reads being from the pre-smoothing array, so the result is the      *)
(* same for every order in which the vertices are visited.                 *)
(***************************************************************************)
\* the vertices the smoothing loop has visited so far
Visited == {visitVertex(order, Len(positions), k) : k \in 0..(i - 1)}

JacobiCoord(v, c) ==
  LET centroid == RoundDiv(sumCoord(neighbors[v], positions, c),
                           Cardinality(neighbors[v]))
  IN RoundDiv(positions[v + 1][c] + centroid, 2)

JacobiPosition(v) ==
  IF neighbors[v] = {} THEN positions[v + 1]
  ELSE <<JacobiCoord(v, 1), JacobiCoord(v, 2), JacobiCoord(v, 3)>>

C10_Jacobi ==
  pc = "smooth" =>
    /\ Len(smoothedPositions) = Len(positions)
    /\ \A v \in 0..(Len(positions) - 1) :
         smoothedPositions[v + 1] =
           IF v \in Visited THEN JacobiPosition(v) ELSE positions[v + 1]

\* a smoothing loop that ran in reverse over a split mesh and moved a
\* vertex whose neighbor had been moved before it
C10_Witness ==
  /\ pc = "smooth"
  /\ i = Len(positions)
  /\ order = "reverse"
  /\ Len(newVertices) > 0
  /\ \E v \in 0..(Len(positions) - 1) : \E w \in neighbors[v] :
       /\ w > v
       /\ smoothedPositions[w + 1] # positions[w + 1]
       /\ smoothedPositions[v + 1] # positions[v + 1]

(***************************************************************************)
(* C11: a smoothing pass leaves in place every vertex whose position is    *)
(* the arithmetic mean of its neighbors' positions (and every vertex       *)
(* without neighbors); so when every vertex is the mean of its neighbors,  *)
(* the pass changes no position.                                           *)
(***************************************************************************)
SmoothPassDone == pc = "smooth" /\ i >= Len(positions)

\* the neighbors of v have v's position as their exact arithmetic mean
MeanIsSelf(v) ==
  /\ neighbors[v] # {}
  /\ \A c \in 1..3 : sumCoord(neighbors[v], positions, c)
                        = Cardinality(neighbors[v]) * positions[v + 1][c]

C11_FixedPoint ==
  SmoothPassDone =>
    /\ \A v \in 0..(Len(positions) - 1) :
         (neighbors[v] = {} \/ MeanIsSelf(v))
           => smoothedPositions[v + 1] = positions[v + 1]
    /\ (\A v \in 0..(Len(positions) - 1) : MeanIsSelf(v))
         => smoothedPositions = positions

C11_Witness ==
  /\ SmoothPassDone
  /\ Len(positions) >= 3
  /\ \A v \in 0..(Len(positions) - 1) : MeanIsSelf(v)
  /\ smoothedPositions = positions

(***************************************************************************)
(* C12: a call whose index buffer has a length that is not a multiple of 3 *)
(* ends with an InvalidMeshError and without an output mesh.               *)
(***************************************************************************)
InvalidLength == Len(geometry.index) % 3 # 0

\* the call is over: it returned or it threw
Terminated == pc \in {"done", "threw"}

C12_Original ==
  (InvalidLength /\ Terminated)
    => (thrown = "InvalidMeshError" /\ newGeometry = undefined)

(***************************************************************************)
(* C13: a call with a triangle index that is not below the vertex count    *)
(* ends with an InvalidMeshError, before anything was computed and without *)
(* an output mesh.                                                         *)
(***************************************************************************)
OutOfRange ==
  \E k \in 1..Len(geometry.index) :
    ~hasVertex(geometry.position, geometry.index[k])

C13_Original ==
  (OutOfRange /\ Terminated)
    => (thrown = "InvalidMeshError" /\ newGeometry = undefined /\ edges = <<>>)

(***************************************************************************)
(* C14: with iterations <= 0 the returned position and index buffers are   *)
(* element-wise equal to the input's.                                      *)
(***************************************************************************)
C14_Identity ==
  (pc = "done" /\ iterations <= 0)
    => /\ newGeometry.position = geometry.position
       /\ newGeometry.index = geometry.index

C14_Witness ==
  /\ pc = "done"
  /\ iterations <= 0
  /\ Len(geometry.index) >= 3
  /\ newGeometry.position = geometry.position
  /\ newGeometry.index = geometry.index

(***************************************************************************)
(* C15: no step changes the caller's buffers, no working array is one of   *)
(* the caller's arrays, and the returned buffers are new arrays.           *)
(***************************************************************************)
CallerArrays == {callerPosition, callerIndex}

C15_NoMutation ==
  [][/\ geometry' = geometry
     /\ refs'.positions \notin CallerArrays
     /\ refs'.indices \notin CallerArrays
     /\ refs'.smoothedPositions \notin CallerArrays
     /\ pc' = "done" =>
          /\ refs'.position \notin
               CallerArrays \cup {noArray, refs'.positions, refs'.indices}
          /\ refs'.index \notin
               CallerArrays \cup {noArray, refs'.positions, refs'.indices,
                                  refs'.position}]_vars

C15_Witness ==
  /\ pc = "done"
  /\ iter >= 1
  /\ newGeometry.position # geometry.position
  /\ newGeometry.index # geometry.index
  /\ refs.position \notin CallerArrays
  /\ refs.index \notin CallerArrays

(***************************************************************************)
(* C16: when the rebuilt triangle has an edge that is longer than          *)
(* maxLength and lies on more than two triangles, the edge has one entry   *)
(* in the edge table and one midpoint vertex, whose index depends on the   *)
(* edge alone; the triangle's sub-triangles use that index next to both    *)
(* ends of the edge, and no error was raised.                              *)
(***************************************************************************)
\* the edge of entry j of the edge table, as a set of vertices
EntryEdge(j) ==
  LET v == parseEdgeKey(edges[j].key) IN {v[1], v[2]}

EntriesOf(e) == {j \in 1..Len(edges) : EntryEdge(j) = e}

\* the index the split pass gives to the midpoint of the edge of entry j:
\* the vertex count plus the number of long edges before it in the table
SplitIndexOf(j) ==
  Len(vertexPositions)
    + Cardinality({k \in 1..(j - 1) :
                    IsLong(EntryEdge(k), vertexPositions, targetEdgeLength)})

\* edge k of the rebuilt triangle
ParentEdge(k) == {ParentV(k), ParentV((k + 1) % 3)}

NonManifoldLong(e) ==
  /\ Cardinality(e) = 2
  /\ Cardinality(IncidentTris(indices, e)) > 2
  /\ IsLong(e, vertexPositions, targetEdgeLength)

PushedHas(a, b) ==
  \E j \in 0..(NumPushed - 1) : TriHasEdge(PushedTri(j), {a, b})

C16_NonManifold ==
  JustRebuilt =>
    \A k \in 0..2 :
      NonManifoldLong(ParentEdge(k)) =>
        /\ Cardinality(EntriesOf(ParentEdge(k))) = 1
        /\ \A j \in EntriesOf(ParentEdge(k)) :
             /\ ParentSplit(k) = SplitIndexOf(j)
             /\ {t : t \in IncidentTris(indices, ParentEdge(k))}
                  = {edges[j].triangles[n] :
                       n \in 1..Len(edges[j].triangles)}
        /\ newVertices[ParentSplit(k) - Len(vertexPositions) + 1]
             = midpointOf(vertexPositions[ParentV(k) + 1],
                          vertexPositions[ParentV((k + 1) % 3) + 1])
        /\ PushedHas(ParentV(k), ParentSplit(k))
        /\ PushedHas(ParentSplit(k), ParentV((k + 1) % 3))
        /\ thrown = "none"

\* the third triangle around a long edge has been rebuilt
C16_Witness ==
  /\ JustRebuilt
  /\ i >= 3
  /\ \E k \in 0..2 :
       /\ NonManifoldLong(ParentEdge(k))
       /\ PushedHas(ParentV(k), ParentSplit(k))
       /\ IncidentTris(indices, ParentEdge(k)) \subseteq 0..(i - 1)

(***************************************************************************)
(* C17: an edge of length zero (two vertices at the same place, or the     *)
(* edge from a vertex to itself in a triangle that repeats an index) is    *)
(* never given a midpoint by the split pass.                               *)
(***************************************************************************)
\* entry j of the edge table has been visited by the split pass
SplitVisited(j) == pc = "split" /\ j <= i

ZeroLength(j) ==
  LET v == parseEdgeKey(edges[j].key)
  IN /\ hasVertex(vertexPositions, v[1])
     /\ hasVertex(vertexPositions, v[2])
     /\ distanceSq(vertexPositions[v[1] + 1], vertexPositions[v[2] + 1]) = 0

C17_ZeroLength ==
  \A j \in 1..Len(edges) :
    (SplitVisited(j) /\ ZeroLength(j))
      => mapGet(splitMap, edges[j].key) = undefined

\* the pass has visited a self-edge and an edge between coincident vertices
C17_Witness ==
  /\ pc = "split"
  /\ i = Len(edges)
  /\ Len(newVertices) > 0
  /\ \E j \in 1..i :
       ZeroLength(j) /\ Cardinality(EntryEdge(j)) = 2
         /\ mapGet(splitMap, edges[j].key) = undefined

(***************************************************************************)
(* C18: every round runs the split pass with maxLength = 1.33 * target,    *)
(* then builds the adjacency over the triangle list and the vertex count   *)
(* the split pass left, then runs one smoothing pass over all those        *)
(* vertices, the new midpoints included; the smoothing runs also when no   *)
(* edge was split, and the round counter moves only after it.              *)
(***************************************************************************)
\* the phases a step may lead to from each phase of a round
PhaseAfter(phase) ==
  CASE phase = "loop" -> {"edges", "done"}
    [] phase = "edges" -> {"edges", "split"}
    [] phase = "split" -> {"split", "rebuild", "adjacency", "threw"}
    [] phase = "rebuild" -> {"rebuild", "adjacency"}
    [] phase = "adjacency" -> {"adjacency", "smooth"}
    [] phase = "smooth" -> {"smooth", "loop"}
    [] OTHER -> {}

RoundStep ==
  /\ pc' \in PhaseAfter(pc)
  \* the split pass ends: it made one midpoint per edge longer than
  \* 1.33 * target, and the rebuild runs iff there is one
  /\ (pc = "split" /\ pc' \in {"rebuild", "adjacency"}) =>
       /\ Len(newVertices) =
            Cardinality(LongEdges(indices, vertexPositions, targetEdgeLength))
       /\ (pc' = "rebuild") = (Len(newVertices) > 0)
  \* the adjacency starts empty over the vertices the split pass left
  /\ (pc # "adjacency" /\ pc' = "adjacency") =>
       /\ Len(positions') = Len(vertexPositions) + Len(newVertices)
       /\ Len(newVertices) > 0 => indices' = newTriangles
       /\ Len(newVertices) = 0 => indices' = oldIndices
       /\ neighbors' = [v \in 0..(Len(positions') - 1) |-> {}]
  \* the adjacency loop reads every triangle of that list
  /\ (pc = "adjacency" /\ pc' = "smooth") => i = numTriOf(indices)
  \* the round counter moves by one, at the end of a smoothing pass that
  \* visited every vertex
  /\ iter' # iter =>
       /\ pc = "smooth" /\ pc' = "loop"
       /\ iter' = iter + 1
       /\ Visited = 0..(Len(positions) - 1)
       /\ Len(positions') = Len(vertexPositions) + Len(newVertices)
       /\ \A v \in 0..(Len(positions) - 1) :
            positions'[v + 1] = JacobiPosition(v)
  /\ (pc = "smooth" /\ pc' = "loop") => iter' = iter + 1
  /\ (pc = "loop" /\ pc' = "edges") => iter < iterations

C18_RoundOrder == [][RoundStep]_vars

\* a round that split no edge has ended, and its smoothing moved a vertex
C18_Witness ==
  /\ pc = "loop"
  /\ iter >= 1
  /\ Len(newVertices) = 0
  /\ indices = oldIndices
  /\ positions # vertexPositions

(***************************************************************************)
(* C19: the edge table is keyed by the unordered vertex pair: the key of   *)
(* (a, b) is the key of (b, a) and parses back to (smaller, larger), so    *)
(* different pairs have different keys; the table has one entry per edge   *)
(* of the triangle list, and the entry lists the triangles that contain    *)
(* the edge, once per occurrence; the lists have 3 * T entries in all,     *)
(* and the table of an empty triangle list is empty.                       *)
(***************************************************************************)
\* the edge loop is over and the table complete, for a list of whole
\* triangles
TableDone == pc = "split" /\ i = 0 /\ Len(indices) % 3 = 0

Smaller(a, b) == IF a < b THEN a ELSE b
Larger(a, b) == IF a < b THEN b ELSE a

\* the number of times triangle t is in the list of entry j
Listed(j, t) ==
  Cardinality({n \in 1..Len(edges[j].triangles) : edges[j].triangles[n] = t})

\* the number of edges of triangle t that are edge e
Occurrences(t, e) ==
  Cardinality({a \in 0..2 : EdgeOf(indices, t, a) = e})

C19_EdgeTable ==
  TableDone =>
    /\ \A a, b \in 0..(Len(vertexPositions) - 1) :
         /\ makeEdgeKey(a, b) = makeEdgeKey(b, a)
         /\ parseEdgeKey(makeEdgeKey(a, b)) = <<Smaller(a, b), Larger(a, b)>>
    /\ \A j, k \in 1..Len(edges) : edges[j].key = edges[k].key => j = k
    /\ {EntryEdge(j) : j \in 1..Len(edges)} = EdgeSet(indices)
    /\ \A j \in 1..Len(edges) :
         /\ \A n \in 1..Len(edges[j].triangles) :
              edges[j].triangles[n] \in Tris(indices)
         /\ \A t \in Tris(indices) :
              Listed(j, t) = Occurrences(t, EntryEdge(j))
    /\ Cardinality({jn \in (1..Len(edges)) \X (1..3 * numTriOf(indices)) :
                      jn[2] <= Len(edges[jn[1]].triangles)})
         = 3 * numTriOf(indices)
    /\ numTriOf(indices) = 0 => edges = <<>>

\* a table with a two-digit vertex index and an edge of three triangles
C19_Witness ==
  /\ TableDone
  /\ Len(vertexPositions) > 10
  /\ \E j \in 1..Len(edges) : Len(edges[j].triangles) >= 3

(***************************************************************************)
(* C20: when the adjacency is complete it is symmetric and matches the     *)
(* triangle list: j is a neighbor of i iff i is a neighbor of j iff some   *)
(* triangle of the post-split list has i and j at two of its three         *)
(* positions.                                                              *)
(***************************************************************************)
AdjacencyDone == pc = "smooth"

\* triangle t has a and b at two different positions
TogetherIn(t, a, b) ==
  \E x, y \in 0..2 :
    x # y /\ triVertex(indices, t, x) = a /\ triVertex(indices, t, y) = b

C20_Adjacency ==
  AdjacencyDone =>
    /\ DOMAIN neighbors = 0..(Len(positions) - 1)
    /\ \A a, b \in 0..(Len(positions) - 1) :
         /\ (b \in neighbors[a]) = (a \in neighbors[b])
         /\ (b \in neighbors[a])
              = (\E t \in Tris(indices) : TogetherIn(t, a, b))
    /\ \A a \in 0..(Len(positions) - 1) :
         neighbors[a] \subseteq 0..(Len(positions) - 1)

\* the adjacency of a split mesh, with a vertex of four or more neighbors
C20_Witness ==
  /\ AdjacencyDone
  /\ Len(newVertices) > 0
  /\ indices = newTriangles
  /\ \E a \in 0..(Len(positions) - 1) : Cardinality(neighbors[a]) >= 4

(***************************************************************************)
(* C21: a vertex of the input that no triangle references keeps its index  *)
(* and its position in every state of the call; its neighbor set is empty  *)
(* whenever the adjacency exists, every smoothing pass leaves it in place, *)
(* and the returned mesh has it where the input had it.                    *)
(***************************************************************************)
\* the vertices of the input that are in no triangle
Isolated ==
  {v \in 0..(Len(geometry.position) - 1) :
     \A k \in 1..Len(geometry.index) : geometry.index[k] # v}

C21_Isolated ==
  \A v \in Isolated :
    /\ v < Len(positions)
    /\ positions[v + 1] = geometry.position[v + 1]
    /\ \A k \in 1..Len(indices) : indices[k] # v
    /\ pc \in {"adjacency", "smooth"} => neighbors[v] = {}
    /\ pc = "smooth" => smoothedPositions[v + 1] = geometry.position[v + 1]
    /\ pc = "done" => newGeometry.position[v + 1] = geometry.position[v + 1]

\* two rounds have split and smoothed the mesh around an isolated vertex
C21_Witness ==
  /\ pc = "done"
  /\ iter = 2
  /\ Isolated # {}
  /\ numTriOf(geometry.index) > 0
  /\ Len(positions) > Len(geometry.position)
  /\ \E v \in 0..(Len(geometry.position) - 1) :
       positions[v + 1] # geometry.position[v + 1]

(***************************************************************************)
(* C22: the split pass only appends vertices: the vertices it found keep   *)
(* index and position; the j-th edge it marks, in the order of the edge    *)
(* table and counting from 0, gets the index V + j, V being the vertex     *)
(* count before the pass, and the midpoint of its ends as position; the    *)
(* split map has no other keys, is injective, and its values are the       *)
(* indices V .. V + K - 1.                                                 *)
(***************************************************************************)
LongEntry(j) == IsLong(EntryEdge(j), vertexPositions, targetEdgeLength)

\* m is the midpoint of the ends of the edge of entry j, rounded to the
\* grid
IsEntryMidpoint(j, m) ==
  LET v == parseEdgeKey(edges[j].key)
      p0 == vertexPositions[v[1] + 1]
      p1 == vertexPositions[v[2] + 1]
  IN \A c \in 1..3 : 2 * m[c] - (p0[c] + p1[c]) \in {0, 1}

C22_AppendOnly ==
  SplitPassDone =>
    /\ SubSeq(positions, 1, Len(vertexPositions)) = vertexPositions
    /\ DOMAIN splitMap = {edges[j].key : j \in {k \in 1..Len(edges) : LongEntry(k)}}
    /\ \A j \in 1..Len(edges) :
         LongEntry(j) =>
           /\ splitMap[edges[j].key] = SplitIndexOf(j)
           /\ IsEntryMidpoint(j, positions[SplitIndexOf(j) + 1])
    /\ \A x, y \in DOMAIN splitMap : splitMap[x] = splitMap[y] => x = y
    /\ {splitMap[x] : x \in DOMAIN splitMap}
         = Len(vertexPositions)..(Len(positions) - 1)

\* a pass that marked two entries of the table and skipped one between
\* them
C22_Witness ==
  /\ SplitPassDone
  /\ \E j, k, l \in 1..Len(edges) :
       /\ j < k /\ k < l
       /\ LongEntry(j) /\ ~LongEntry(k) /\ LongEntry(l)
       /\ splitMap[edges[l].key] > splitMap[edges[j].key]
       /\ splitMap[edges[l].key] < Len(vertexPositions) + l - 1

(***************************************************************************)
(* C23: when the input's index buffer has a length that is a multiple of   *)
(* 3 and only indices below the vertex count, then in every state, so      *)
(* after every round, the index buffer has a length that is a multiple of  *)
(* 3 and only indices below the current vertex count, every vertex made    *)
(* by a split is in some triangle, and no error was raised.                *)
(***************************************************************************)
WellFormedInput ==
  /\ Len(geometry.index) % 3 = 0
  /\ \A k \in 1..Len(geometry.index) :
       hasVertex(geometry.position, geometry.index[k])

C23_IndexValid ==
  WellFormedInput =>
    /\ Len(indices) % 3 = 0
    /\ \A k \in 1..Len(indices) : hasVertex(positions, indices[k])
    /\ \A v \in Len(geometry.position)..(Len(positions) - 1) :
         \E k \in 1..Len(indices) : indices[k] = v
    /\ thrown = "none"

\* the second round has ended, both rounds having made vertices
C23_Witness ==
  /\ WellFormedInput
  /\ pc = "loop"
  /\ iter = 2
  /\ Len(newVertices) > 0
  /\ Len(vertexPositions) > Len(geometry.position)
  /\ Len(positions) > Len(vertexPositions)

(***************************************************************************)
(* C24: a split pass leaves no T-junction: the sub-triangles of a triangle *)
(* do not have an edge of it that is in the split map, they have the two   *)
(* halves from its ends to the midpoint instead; and no triangle of the    *)
(* list the pass leaves has an edge that is in the split map.              *)
(***************************************************************************)
C24_NoTJunction ==
  /\ JustRebuilt =>
       \A k \in 0..2 :
         ParentSplit(k) # undefined =>
           /\ ~PushedHas(ParentV(k), ParentV((k + 1) % 3))
           /\ PushedHas(ParentV(k), ParentSplit(k))
           /\ PushedHas(ParentSplit(k), ParentV((k + 1) % 3))
  /\ SplitPassDone =>
       \A j \in 1..Len(edges) :
         edges[j].key \in DOMAIN splitMap =>
           /\ IncidentTris(oldIndices, EntryEdge(j)) # {}
           /\ IncidentTris(indices, EntryEdge(j)) = {}
           /\ \A a \in EntryEdge(j) :
                IncidentTris(indices, {a, splitMap[edges[j].key]}) # {}

\* a pass over triangles that share a split edge, one of them with an
\* unsplit edge
C24_Witness ==
  /\ SplitPassDone
  /\ \E j \in 1..Len(edges) :
       /\ edges[j].key \in DOMAIN splitMap
       /\ Len(edges[j].triangles) >= 2
       /\ IncidentTris(indices, EntryEdge(j)) = {}
  /\ \E j \in 1..Len(edges) : edges[j].key \notin DOMAIN splitMap

(***************************************************************************)
(* C25: a call on a mesh of whole triangles with indices below the vertex  *)
(* count runs to completion and returns a mesh, after exactly              *)
(* max(iterations, 0) rounds of the driver loop.                           *)
(***************************************************************************)
Rounds == IF iterations > 0 THEN iterations ELSE 0

Returned == pc = "done" /\ refs.position # noArray /\ refs.index # noArray

C25_Terminates == WellFormedInput => <>(Returned /\ iter = Rounds)

\* a call of two rounds has returned a mesh with more triangles
C25_Witness ==
  /\ WellFormedInput
  /\ Returned
  /\ iterations = 2
  /\ iter = 2
  /\ Len(newGeometry.index) > Len(geometry.index)

(***************************************************************************)
(* calculateNormal of geometryToSTL (src/src/utils/objExporter.js).        *)
(* The vertices have integer coordinates; the square root and the          *)
(* quotients are rounded to multiples of 1/100.                            *)
(***************************************************************************)
\* remeshGeometry is not being called
RemeshIdle ==
  /\ pc = "idle"
  /\ geometry = [position |-> <<>>, index |-> <<>>]
  /\ targetEdgeLength = 0
  /\ iterations = 0
  /\ iter = 0
  /\ i = 0
  /\ positions = <<>>
  /\ indices = <<>>
  /\ vertexPositions = <<>>
  /\ oldIndices = <<>>
  /\ edges = <<>>
  /\ newVertices = <<>>
  /\ splitMap = emptyMap
  /\ newTriangles = <<>>
  /\ pushed = <<>>
  /\ neighbors = <<>>
  /\ smoothedPositions = <<>>
  /\ order = "forward"
  /\ newGeometry = undefined
  /\ thrown = "none"
  /\ refs = [positions |-> noArray, indices |-> noArray,
             smoothedPositions |-> noArray, position |-> noArray,
             index |-> noArray]

\* a - b, component by component
minus(a, b) == [x |-> a.x - b.x, y |-> a.y - b.y, z |-> a.z - b.z]

cross(u, v) ==
  [x |-> u.y * v.z - u.z * v.y,
   y |-> u.z * v.x - u.x * v.z,
   z |-> u.x * v.y - u.y * v.x]

\* Math.sqrt(q) in 1/100, rounded to the nearest multiple of 1/100
sqrt100(q) ==
  CHOOSE r \in 0..(100 * q) :
    /\ (r = 0 \/ (2 * r - 1) * (2 * r - 1) <= 40000 * q)
    /\ 40000 * q < (2 * r + 1) * (2 * r + 1)

\* a / len in 1/100, for len in 1/100
over100(a, len) == RoundDiv(10000 * a, len)

\* a faulty variant of calculateNormal: no test of len, so 0 / 0
calculateNormalUnguarded(v1, v2, v3) ==
  LET n == cross(minus(v2, v1), minus(v3, v1))
      len == sqrt100(n.x * n.x + n.y * n.y + n.z * n.z)
  IN IF len = 0 THEN [x |-> NaN, y |-> NaN, z |-> NaN]
     ELSE [x |-> over100(n.x, len), y |-> over100(n.y, len),
           z |-> over100(n.z, len)]

calculateNormal(v1, v2, v3) ==
  LET u == minus(v2, v1)
      v == minus(v3, v1)
      n == cross(u, v)
      len == sqrt100(n.x * n.x + n.y * n.y + n.z * n.z)
  IN IF len = 0 THEN [x |-> 0, y |-> 0, z |-> 0]
     ELSE [x |-> over100(n.x, len), y |-> over100(n.y, len),
           z |-> over100(n.z, len)]

Coords == 0..MaxCoord
Points == [x : Coords, y : Coords, z : Coords]

\* processFace is about to call calculateNormal on a face
InitNormal ==
  /\ RemeshIdle
  /\ ProviderIdle
  /\ OrderIdle
  /\ ViewerIdle
  /\ stlPc = "call"
  /\ faceVertices \in Points \X Points \X Points
  /\ facetNormal = undefined

CalculateNormal ==
  /\ stlPc = "call"
  /\ facetNormal' = calculateNormal(faceVertices[1], faceVertices[2],
                                    faceVertices[3])
  /\ stlPc' = "returned"
  /\ UNCHANGED <<faceVertices, remeshVars, orderVars, viewerVars,
                 providerVars>>

NextNormal == CalculateNormal

SpecNormal == InitNormal /\ [][NextNormal]_vars

(***************************************************************************)
(* C26: calculateNormal returns (0,0,0) when the cross product of the two  *)
(* edge vectors of the face has length 0, and otherwise the cross product  *)
(* divided by its length, a vector of length 1; no component is the        *)
(* outcome of a division by zero.                                          *)
(***************************************************************************)
\* the cross product of the edge vectors of the face
FaceCross ==
  cross(minus(faceVertices[2], faceVertices[1]),
        minus(faceVertices[3], faceVertices[1]))

FaceCrossSq ==
  FaceCross.x * FaceCross.x + FaceCross.y * FaceCross.y
    + FaceCross.z * FaceCross.z

\* q is a / len rounded to 1/100, len being sqrt(FaceCrossSq): the squares
\* of 2 * (q * len - a * 100) and of len are compared, in 1/100 and exactly
IsQuotient(q, a) ==
  LET len == sqrt100(FaceCrossSq)
      d == 2 * (q * len - 10000 * a)
  IN -len <= d /\ d <= len

C26_Normal ==
  stlPc = "returned" =>
    /\ FaceCrossSq = 0 => facetNormal = [x |-> 0, y |-> 0, z |-> 0]
    /\ FaceCrossSq # 0 =>
         /\ IsQuotient(facetNormal.x, FaceCross.x)
         /\ IsQuotient(facetNormal.y, FaceCross.y)
         /\ IsQuotient(facetNormal.z, FaceCross.z)
         /\ facetNormal.x * facetNormal.x + facetNormal.y * facetNormal.y
              + facetNormal.z * facetNormal.z \in 9800..10200
    /\ NaN \notin {facetNormal.x, facetNormal.y, facetNormal.z}

\* the normal of a face with a zero-length edge
C26_Witness ==
  /\ stlPc = "returned"
  /\ FaceCrossSq = 0
  /\ faceVertices[2] = faceVertices[3]
  /\ faceVertices[1] # faceVertices[2]
  /\ facetNormal = [x |-> 0, y |-> 0, z |-> 0]

(***************************************************************************)
(* handleOrder of App.jsx.  The handler runs from one await to the next;   *)
(* every awaited promise settles either way, chosen by the action that     *)
(* resumes the handler.                                                    *)
(***************************************************************************)
\* String.prototype.includes for a single character
includes(s, c) == \E k \in 1..Len(s) : s[k] = c

\* the e-mail addresses tried: none, without an @, and two with an @
Emails == { <<>>, <<"a">>, <<"a", "@", "b">>, <<"@">> }

\* the test of line 868
invalidEmail == ~offlineMode /\ (email = <<>> \/ ~includes(email, "@"))

\* how the promise of uploadToGoogleDrive can settle: it rejects when fetch
\* rejects, when the response is not ok and when its body is not JSON
uploadToGoogleDrive == {"resolved", "rejected"}

\* how the promise of exportAndUploadGeometry can settle
exportAndUploadGeometry(geom) ==
  IF ~geom THEN {"rejected"} ELSE uploadToGoogleDrive

\* a faulty catch block, which leaves the flag as it is
catchBlockNoReset(flag, log) ==
  [isOrdering |-> flag, effects |-> Append(log, "alert")]

\* the catch block of lines 980-984
catchBlock(flag, log) ==
  [isOrdering |-> FALSE, effects |-> Append(log, "alert")]

\* a faulty inner try, which lets the rejection through to the outer catch
exportErrorRethrown(outcome) == outcome = "rejected"

\* the inner try of lines 915-920 catches the rejection of the export:
\* whether the error leaves it
exportErrorThrown(outcome) == FALSE

InitOrder ==
  /\ RemeshIdle
  /\ ProviderIdle
  /\ StlIdle
  /\ ViewerIdle
  /\ orderPc = "ready"
  /\ offlineMode \in BOOLEAN
  /\ email \in Emails
  /\ currentGeometry \in BOOLEAN
  /\ confirmationNumber \in {"null", "loaded"}
  /\ isOrdering = FALSE
  /\ effects = <<>>

\* the handler leaves through the catch block
Caught(log) ==
  /\ isOrdering' = catchBlock(isOrdering, log).isOrdering
  /\ effects' = catchBlock(isOrdering, log).effects
  /\ orderPc' = "returned"

\* lines 926-938: the create-order request is sent
CreateOrder(log) ==
  /\ effects' = Append(log, "createOrder")
  /\ orderPc' = "awaitFetch"
  /\ UNCHANGED isOrdering

\* lines 867-908 and 956-978: the call up to its first await, or to its end
HandleOrder ==
  /\ orderPc = "ready"
  /\ UNCHANGED <<remeshVars, stlVars, viewerVars, providerVars,
                 offlineMode, email, currentGeometry>>
  /\ IF invalidEmail
     THEN /\ effects' = Append(effects, "alert")
          /\ orderPc' = "returned"
          /\ UNCHANGED <<isOrdering, confirmationNumber>>
     ELSE IF ~offlineMode
     THEN /\ isOrdering' = TRUE
          /\ confirmationNumber' = "guid"
          /\ effects' = Append(effects, "uploadSettings")
          /\ orderPc' = "awaitSettings"
     ELSE IF currentGeometry
     THEN /\ isOrdering' = TRUE
          /\ effects' = Append(effects, "exportMesh")
          /\ orderPc' = "awaitOfflineExport"
          /\ UNCHANGED confirmationNumber
     ELSE \* setIsOrdering(true) and setIsOrdering(false) in one run
          /\ isOrdering' = FALSE
          /\ effects' = Append(effects, "alert")
          /\ orderPc' = "returned"
          /\ UNCHANGED confirmationNumber

\* lines 908-938: the settings upload has settled
SettingsSettled ==
  /\ orderPc = "awaitSettings"
  /\ UNCHANGED <<remeshVars, stlVars, viewerVars, providerVars,
                 offlineMode, email, currentGeometry,
                 confirmationNumber>>
  /\ \E outcome \in uploadToGoogleDrive :
       IF outcome = "rejected"
       THEN Caught(Append(effects, "settingsFailed"))
       ELSE IF currentGeometry
       THEN /\ effects' = effects \o <<"settingsUploaded", "exportMesh">>
            /\ orderPc' = "awaitExport"
            /\ UNCHANGED isOrdering
       ELSE CreateOrder(Append(effects, "settingsUploaded"))

\* lines 916-938: the export of the mesh has settled
ExportSettled ==
  /\ orderPc = "awaitExport"
  /\ UNCHANGED <<remeshVars, stlVars, viewerVars, providerVars,
                 offlineMode, email, currentGeometry,
                 confirmationNumber>>
  /\ \E outcome \in exportAndUploadGeometry(currentGeometry) :
       LET log == Append(effects, IF outcome = "rejected"
                                  THEN "exportFailed" ELSE "meshUploaded")
       IN IF exportErrorThrown(outcome) THEN Caught(log)
          ELSE CreateOrder(log)

\* lines 933-946: the create-order request has settled
FetchSettled ==
  /\ orderPc = "awaitFetch"
  /\ UNCHANGED <<remeshVars, stlVars, viewerVars, providerVars,
                 offlineMode, email, currentGeometry,
                 confirmationNumber>>
  /\ \E outcome \in {"ok", "notOk", "rejected"} :
       IF outcome = "rejected"
       THEN Caught(Append(effects, "fetchFailed"))
       ELSE /\ effects' = Append(effects, outcome)
            /\ orderPc' = IF outcome = "ok" THEN "awaitJson" ELSE "awaitText"
            /\ UNCHANGED isOrdering

\* lines 941-943: the body of the error response has settled; the handler
\* throws in both cases
TextSettled ==
  /\ orderPc = "awaitText"
  /\ UNCHANGED <<remeshVars, stlVars, viewerVars, providerVars,
                 offlineMode, email, currentGeometry,
                 confirmationNumber>>
  /\ \E outcome \in {"resolved", "rejected"} : Caught(effects)

\* lines 946-955: the body of the response has settled
JsonSettled ==
  /\ orderPc = "awaitJson"
  /\ UNCHANGED <<remeshVars, stlVars, viewerVars, providerVars,
                 offlineMode, email, currentGeometry,
                 confirmationNumber>>
  /\ \E outcome \in {"checkoutUrl", "noCheckoutUrl", "rejected"} :
       IF outcome = "checkoutUrl"
       THEN /\ effects' = Append(effects, "redirect")
            /\ orderPc' = "redirected"
            /\ UNCHANGED isOrdering
       ELSE Caught(Append(effects, outcome))

\* lines 970-977: the export of the offline mode has settled
OfflineExportSettled ==
  /\ orderPc = "awaitOfflineExport"
  /\ UNCHANGED <<remeshVars, stlVars, viewerVars, providerVars,
                 offlineMode, email, currentGeometry,
                 confirmationNumber>>
  /\ \E outcome \in exportAndUploadGeometry(currentGeometry) :
       IF outcome = "rejected"
       THEN Caught(Append(effects, "exportFailed"))
       ELSE /\ effects' = effects \o <<"meshUploaded", "alert">>
            /\ isOrdering' = FALSE
            /\ orderPc' = "returned"

\* an awaited promise settles and the handler goes on
Settled ==
  \/ SettingsSettled
  \/ ExportSettled
  \/ FetchSettled
  \/ TextSettled
  \/ JsonSettled
  \/ OfflineExportSettled

NextOrder == HandleOrder \/ Settled

SpecOrder == InitOrder /\ [][NextOrder]_vars

\* every awaited upload and fetch settles in the end
SpecOrderFair == SpecOrder /\ WF_vars(Settled)

(***************************************************************************)
(* C27: handleOrder never leaves the ordering flag stuck.  Once isOrdering *)
(* is true, and every awaited promise settling, the handler in the end     *)
(* redirects to the checkout or sets isOrdering back to false; a handler   *)
(* that has returned, after a failure or after the offline upload, has     *)
(* left the flag false; and a call with an invalid e-mail address in       *)
(* online mode returns with nothing done but its alert, the flag untouched *)
(* and no request sent.                                                    *)
(***************************************************************************)
\* the entries of the log
Done == { effects[k] : k \in 1..Len(effects) }

Requests == {"uploadSettings", "exportMesh", "createOrder"}

C27_NeverStuck ==
  /\ isOrdering ~> (orderPc = "redirected" \/ ~isOrdering)
  /\ [](orderPc = "returned" => ~isOrdering)
  /\ [](invalidEmail /\ orderPc # "ready" =>
          /\ orderPc = "returned"
          /\ ~isOrdering
          /\ Done \cap Requests = {}
          /\ effects = <<"alert">>)

\* an order that failed for its missing checkout URL, the flag reset
C27_Witness ==
  /\ orderPc = "returned"
  /\ "uploadSettings" \in Done
  /\ "noCheckoutUrl" \in Done
  /\ ~isOrdering

(***************************************************************************)
(* C28: in online mode a failed export of the mesh does not abort the      *)
(* order: the create-order request is sent after the export was rejected,  *)
(* and it is sent only after the settings upload has succeeded.  In every  *)
(* run the handler uploads the settings, then exports the mesh if there is *)
(* a geometry, then sends the create-order request, then redirects.        *)
(***************************************************************************)
\* where e is first found in the log, 0 when it is not there
Position(e) ==
  IF e \in Done
  THEN CHOOSE k \in 1..Len(effects) :
         effects[k] = e /\ \A j \in 1..(k - 1) : effects[j] # e
  ELSE 0

IsRequestOrRedirect(e) == e \in Requests \cup {"redirect"}

\* what a complete online run does, in order
OnlineRun ==
  IF currentGeometry
  THEN <<"uploadSettings", "exportMesh", "createOrder", "redirect">>
  ELSE <<"uploadSettings", "createOrder", "redirect">>

IsPrefix(s, t) == Len(s) <= Len(t) /\ SubSeq(t, 1, Len(s)) = s

C28_ExportDoesNotAbort ==
  /\ ~offlineMode =>
       /\ "exportFailed" \in Done =>
            /\ "createOrder" \in Done
            /\ Position("exportFailed") < Position("createOrder")
       /\ "createOrder" \in Done =>
            /\ "settingsUploaded" \in Done
            /\ Position("settingsUploaded") < Position("createOrder")
       /\ IsPrefix(SelectSeq(effects, IsRequestOrRedirect), OnlineRun)
       /\ orderPc = "redirected" =>
            SelectSeq(effects, IsRequestOrRedirect) = OnlineRun
  /\ offlineMode =>
       IsPrefix(SelectSeq(effects, IsRequestOrRedirect), <<"exportMesh">>)

\* an order carried to the redirect although the export of its mesh failed
C28_Witness ==
  /\ ~offlineMode
  /\ "exportFailed" \in Done
  /\ orderPc = "redirected"
  /\ Position("exportFailed") < Position("createOrder")

(***************************************************************************)
(* The font of ModelViewer.jsx.  An effect loads the font of textFont each *)
(* time textFont changes; a second effect applies the subdivision and the  *)
(* boolean subtraction with the values of the render it belongs to.  A     *)
(* load is not cancelled when textFont changes, and its callback does not  *)
(* look at textFont.                                                       *)
(***************************************************************************)
\* the values of the prop textFont tried; the last one has no entry in
\* fontUrls
TextFonts == {"helvetiker", "optimer", "comic"}

\* line 199: fontUrls[textFont] || fontUrls.helvetiker
fontUrl(t) ==
  IF t = "helvetiker" THEN "helvetiker_bold.typeface.json"
  ELSE IF t = "optimer" THEN "optimer_bold.typeface.json"
  ELSE "helvetiker_bold.typeface.json"

\* lines 299-379: the effect run with textFont t, font f, booleanSubtract bs
\* and ready; the boolean subtraction it makes, prev when it makes none
applyEffect(t, f, bs, ready, prev) ==
  IF ~ready THEN prev
  ELSE IF bs /\ f = "null" THEN prev
  ELSE IF bs THEN [font |-> f, textFont |-> t]
  ELSE prev

InitViewer ==
  /\ RemeshIdle
  /\ ProviderIdle
  /\ StlIdle
  /\ OrderIdle
  /\ textFont \in TextFonts
  /\ font = "null"
  /\ fontLoads = {fontUrl(textFont)}
  /\ booleanSubtract \in BOOLEAN
  /\ objReady = FALSE
  /\ subtracted = noSubtraction

\* the prop textFont changes: both effects run after the render, which has
\* the new textFont and the font of before; then font is null
SetTextFont ==
  /\ \E t \in TextFonts \ {textFont} :
       /\ textFont' = t
       /\ subtracted' = applyEffect(t, font, booleanSubtract, objReady,
                                    subtracted)
       /\ font' = "null"
       /\ fontLoads' = fontLoads \cup {fontUrl(t)}
  /\ UNCHANGED <<remeshVars, stlVars, orderVars, providerVars,
                 booleanSubtract, objReady>>

\* lines 204-207: a load completes, and the second effect runs with the font
FontLoaded ==
  /\ \E u \in fontLoads :
       /\ fontLoads' = fontLoads \ {u}
       /\ font' = u
       /\ subtracted' = IF font = u THEN subtracted
                        ELSE applyEffect(textFont, u, booleanSubtract,
                                         objReady, subtracted)
  /\ UNCHANGED <<remeshVars, stlVars, orderVars, providerVars,
                 textFont, booleanSubtract, objReady>>

\* lines 209-211: a load fails
FontLoadFailed ==
  /\ \E u \in fontLoads : fontLoads' = fontLoads \ {u}
  /\ UNCHANGED <<remeshVars, stlVars, orderVars, providerVars,
                 textFont, font, booleanSubtract, objReady,
                 subtracted>>

\* the prop booleanSubtract changes, and the second effect runs
SetBooleanSubtract ==
  /\ booleanSubtract' = ~booleanSubtract
  /\ subtracted' = applyEffect(textFont, font, ~booleanSubtract, objReady,
                               subtracted)
  /\ UNCHANGED <<remeshVars, stlVars, orderVars, providerVars,
                 textFont, font, fontLoads, objReady>>

\* lines 228-282: the model is loaded, and the second effect runs
ObjLoaded ==
  /\ ~objReady
  /\ objReady' = TRUE
  /\ subtracted' = applyEffect(textFont, font, booleanSubtract, TRUE,
                               subtracted)
  /\ UNCHANGED <<remeshVars, stlVars, orderVars, providerVars,
                 textFont, font, fontLoads, booleanSubtract>>

NextViewer ==
  \/ SetTextFont
  \/ FontLoaded
  \/ FontLoadFailed
  \/ SetBooleanSubtract
  \/ ObjLoaded

SpecViewer == InitViewer /\ [][NextViewer]_vars

(***************************************************************************)
(* C29: ModelViewer never uses an old font.  Under every interleaving of   *)
(* the completions of the loads, font is null or the font loaded for the   *)
(* current textFont, and a boolean subtraction is made with the font of    *)
(* the textFont it is made for.                                            *)
(***************************************************************************)
C29_Original ==
  /\ font \in {"null", fontUrl(textFont)}
  /\ subtracted # noSubtraction =>
       subtracted.font = fontUrl(subtracted.textFont)

(***************************************************************************)
(* ManifoldProvider.jsx.  The effect keeps a variable mounted for each of  *)
(* its runs; under React.StrictMode (GraphMeshGenerator.jsx, line 246) it  *)
(* is run, cleaned up and run again on the same states, as it is each time *)
(* React takes the tree away and puts it back with its states.  A render   *)
(* may follow each call of a setter.                                       *)
(***************************************************************************)
MaxEffectRuns == 3   \* the effect is run at most MaxEffectRuns times

\* lines 65-101: what the provider renders
view(st) ==
  IF st.loading THEN "loading"
  ELSE IF st.error # "null" THEN "error"
  ELSE IF st.manifold = "null" THEN "childrenWithoutContext"
  ELSE "children"

\* the states of the provider
providerState ==
  [manifold |-> manifold, loading |-> loading, error |-> error,
   views |-> views]

rendered(st) == [st EXCEPT !.views = @ \cup {view(st)}]

setManifold(st, v) == rendered([st EXCEPT !.manifold = v])

setLoading(st, v) == rendered([st EXCEPT !.loading = v])

setError(st, v) == rendered([st EXCEPT !.error = v])

\* a faulty initManifold, without the test of mounted
afterSetupUnguarded(isMounted, st) ==
  setLoading(setManifold(st, "wasm"), FALSE)

\* lines 35-48: initManifold after wasm.setup()
afterSetup(isMounted, st) ==
  IF ~isMounted THEN st
  ELSE setLoading(setManifold(st, "wasm"), FALSE)

\* lines 49-55: the catch block of initManifold
caught(isMounted, st, err) ==
  IF isMounted THEN setLoading(setError(st, err), FALSE)
  ELSE st

InitProvider ==
  /\ RemeshIdle
  /\ StlIdle
  /\ OrderIdle
  /\ ViewerIdle
  /\ ProviderIdle

\* the provider takes the states of st
Becomes(st) ==
  /\ manifold' = st.manifold
  /\ loading' = st.loading
  /\ error' = st.error
  /\ views' = st.views

\* lines 22-57: the effect is run, mounted for the first time or again after
\* its cleanup: initManifold runs up to its await
RunEffect ==
  /\ Len(runs) < MaxEffectRuns
  /\ IF runs = <<>> THEN TRUE ELSE ~runs[Len(runs)].mounted
  /\ runs' = Append(runs, [mounted |-> TRUE, status |-> "pending"])
  /\ Becomes(rendered(providerState))
  /\ UNCHANGED <<remeshVars, stlVars, orderVars, viewerVars>>

\* lines 59-61: the cleanup of the last run
Cleanup ==
  /\ runs # <<>>
  /\ runs[Len(runs)].mounted
  /\ runs' = [runs EXCEPT ![Len(runs)].mounted = FALSE]
  /\ UNCHANGED <<remeshVars, stlVars, orderVars, viewerVars, manifold,
                 loading, error, views>>

\* lines 30-48: Module() resolves; wasm.setup() returns or throws
ModuleResolved ==
  /\ \E r \in 1..Len(runs) :
       /\ runs[r].status = "pending"
       /\ \E setup \in {"returns", "throws"} :
            IF setup = "returns"
            THEN /\ runs' = [runs EXCEPT ![r].status = "initialized"]
                 /\ Becomes(afterSetup(runs[r].mounted, providerState))
            ELSE /\ runs' = [runs EXCEPT ![r].status = "setupFailed"]
                 /\ Becomes(caught(runs[r].mounted, providerState,
                                   "setupError"))
  /\ UNCHANGED <<remeshVars, stlVars, orderVars, viewerVars>>

\* lines 30 and 49-55: Module() rejects
ModuleRejected ==
  /\ \E r \in 1..Len(runs) :
       /\ runs[r].status = "pending"
       /\ runs' = [runs EXCEPT ![r].status = "failed"]
       /\ Becomes(caught(runs[r].mounted, providerState, "moduleError"))
  /\ UNCHANGED <<remeshVars, stlVars, orderVars, viewerVars>>

NextProvider ==
  \/ RunEffect
  \/ Cleanup
  \/ ModuleResolved
  \/ ModuleRejected

SpecProvider == InitProvider /\ [][NextProvider]_vars

\* lines 8-14: what useManifold gives for a value of the context
useManifold(context) == IF context = "null" THEN "throws" ELSE context

(***************************************************************************)
(* C30: ManifoldProvider updates no state after its unmount and gives out  *)
(* only an initialized context.  When the promise of Module() settles for  *)
(* a run of the effect that has been cleaned up, whether it resolves or    *)
(* rejects, manifold, loading and error stay as they are; and whenever the *)
(* children are rendered (loading false, error null) manifold is not null, *)
(* so that useManifold does not throw.                                     *)
(***************************************************************************)
\* the promise of run r settles in this step
Settles(r) == runs[r].status = "pending" /\ runs'[r].status # "pending"

C30_NoUpdateAfterUnmount ==
  /\ [][\A r \in 1..Len(runs) :
          Settles(r) /\ ~runs[r].mounted =>
            UNCHANGED <<manifold, loading, error>>]_vars
  /\ [](~loading /\ error = "null" =>
          manifold # "null" /\ useManifold(manifold) # "throws")
  /\ []("childrenWithoutContext" \notin views)

\* the first run was cleaned up before its module was initialized, and the
\* provider is still loading
C30_Witness ==
  /\ Len(runs) >= 2
  /\ ~runs[1].mounted
  /\ runs[1].status = "initialized"
  /\ manifold = "null"
  /\ loading
  /\ error = "null"

====
